---- MODULE Spec2Model ----
(***************************************************************************)
(* DumbTerm: the authentication gate, the WebSocket/PTY relay of the       *)
(* server (server.js, scripts/demo/terminal.js) and the per-tab            *)
(* reconnection logic of the browser client (public/managers/terminal.js). *)
(*                                                                         *)
(* Strings that the code inspects character by character (the PIN, cookie  *)
(* values) are sequences of one-character strings.  Time is counted in     *)
(* ticks; LOCKOUT_TIME is the cooldown window in ticks.                    *)
(***************************************************************************)
EXTENDS Integers, Sequences, FiniteSets, Bags, TLC

\* ------------------------------------------------------------------ bounds
MaxTime == 3
LOCKOUT_TIME == 2
MaxPending == 2
MaxLinks == 2
MaxMsgs == 2
MaxOut == 2
MaxClock == 10
MaxSocks == 5
MaxUserEvents == 1
MaxTabs == 3
MaxTabId == 3
MaxOrphans == 1
MaxLines == 3
MaxRetryClock == 15
MaxRetrySocks == 7

\* --------------------------------------------------------- program constants
MAX_ATTEMPTS == 5
POLICY_VIOLATION == 1008
DEFAULT_COLS == 80
DEFAULT_ROWS == 24
\* The client's reconnection constants, delays in seconds.
maxReconnectAttempts == 5
baseReconnectDelay == 1
connectionTimeoutDelay == 5

\* A value that is no string: an unset environment variable, a missing
\* request field, a missing cookie (JavaScript's undefined).
Undefined == <<"#undefined">>
\* A request field that is present but is not a string (a JSON number).
NonString == <<"#number">>

IPs == {"ip1", "ip2"}
Sessions == {"s1", "s2"}
\* The browsers that call the gate: each with its address and its session.
Clients == {[ip |-> "ip1", sess |-> "s1"], [ip |-> "ip2", sess |-> "s2"]}

\* The values process.env[<NAME>_PIN] is started with.
PinConfigs == {Undefined, <<>>, <<" ">>, <<"1", "2">>}
\* The values of the pin field of a /verify-pin body.
PinBodies == {Undefined, NonString, <<>>, <<"1", "2">>, <<"1">>}

IsString(v) == v \notin {Undefined, NonString}

\* The name of the PIN cookie, `${projectName}_PIN`.
PinCookieName == <<"P">>
\* req.headers.cookie of a request without a Cookie header.
NoCookieHeader == <<>>
\* Cookie headers of a link-open request: none, or the entries between ';',
\* each given as its parts between '='.
CookieHeaders ==
    { NoCookieHeader,
      << <<<<"t">>, <<"1">>>>, <<<<" ", "P">>, <<"1", "2">>>> >>,
      << <<PinCookieName, <<"1">>>> >>,
      << <<<<"t">>, <<"1">>>>, <<<<" ", "P">>>> >> }

\* Client messages: the data of an input message, the size of a resize.
InputData == {"a", "\r"}
Geometries == {<<120, 40>>, <<80, 24>>}
\* A size node-pty refuses: resize throws on a column or row count below 1.
BadGeometries == {<<0, 24>>}
Messages ==
    [type : {"input"}, data : InputData, size : {<<0, 0>>}]
        \cup [type : {"resize"}, data : {""}, size : Geometries \cup BadGeometries]
        \cup [type : {"heartbeat", "invalid-json"}, data : {""}, size : {<<0, 0>>}]
\* Output chunks of a shell process.
Chunks == {"x", "y"}

VARIABLES
    PIN,            \* the configured access code
    DEMO_MODE,      \* whether the simulated terminal replaces node-pty
    now,            \* Date.now(), in ticks
    loginAttempts,  \* Map ip -> [count, lastAttempt]
    sessionAuth,    \* req.session.authenticated of each session
    cookieJar,      \* the PIN cookie each browser session holds
    pending,        \* bag of /verify-pin requests waiting in their setTimeout
    resp,           \* the last HTTP response sent
    crashed,        \* "no", or what threw the uncaught exception that ended the process
    links,          \* the WebSockets the server has accepted
    ptys,           \* the terminals createTerminal has spawned
    clock,          \* the browser's time, in seconds
    socks,          \* the WebSocket objects one tab has created, oldest first
    ws,             \* the tab's ws variable: the newest of socks
    reconnectAttempts,
    timers,         \* bag of pending reconnect setTimeouts
    termLine,       \* the last status line the tab wrote to its terminal
    redirected,     \* window.location was set to the login page
    userEvents,     \* keystrokes and page activations so far
    terminals,      \* TerminalManager.terminals: the open tabs, in Map order
    activeTabId,
    tabCounter,
    renaming,       \* the tab whose name span is replaced by the rename input
    storage,        \* localStorage's sessionState entry
    orphans,        \* sockets of initTerminal closures whose tab was closed
    closedIds,      \* identifiers of the tabs closed since the tab set was last empty
    buffer,         \* what serializeAddon.serialize() returns for a tab
    content,        \* the content saveSessionState stores for that tab
    storeMode,      \* the browser's localStorage: "ok", "full" or "disabled"
    isAvailable     \* StorageManager.isAvailable

gateVars == <<now, loginAttempts, sessionAuth, cookieJar, pending, resp>>
relayVars == <<crashed, links, ptys>>
configVars == <<PIN, DEMO_MODE>>
clientVars == <<clock, socks, ws, reconnectAttempts, timers, termLine, redirected, userEvents>>
tabVars == <<terminals, activeTabId, tabCounter, renaming, storage, orphans, closedIds>>
trimVars == <<buffer, content>>
storeVars == <<storeMode, isAvailable>>
vars == <<configVars, gateVars, relayVars, clientVars, tabVars, trimVars, storeVars>>

\* ------------------------------------------------------------------ strings
RECURSIVE TrimStart(_)
TrimStart(s) ==
    IF Len(s) > 0 /\ Head(s) = " " THEN TrimStart(Tail(s)) ELSE s

RECURSIVE TrimEnd(_)
TrimEnd(s) ==
    IF Len(s) > 0 /\ s[Len(s)] = " " THEN TrimEnd(SubSeq(s, 1, Len(s) - 1)) ELSE s

\* String.prototype.trim
Trim(s) == TrimEnd(TrimStart(s))

\* JavaScript's !v for a string or undefined
Falsy(v) == v = Undefined \/ (IsString(v) /\ Len(v) = 0)

\* !PIN || PIN.trim() === ''
\* A gate that takes only an unset code for "no code", not a blank one.
NoPinConfiguredUnsetOnly == Falsy(PIN)

NoPinConfigured == Falsy(PIN) \/ Trim(PIN) = <<>>

\* ----------------------------------------------------- brute force protection
NoRecord == [count |-> 0, lastAttempt |-> 0]

\* A reset that leaves the address's record in place.
resetAttemptsKeepsRecord(ip) == loginAttempts

resetAttempts(ip) == [i \in DOMAIN loginAttempts \ {ip} |-> loginAttempts[i]]

\* A lockout that starts one failure late.
isLockedOutOneLate(ip) ==
    /\ ip \in DOMAIN loginAttempts
    /\ loginAttempts[ip].count > MAX_ATTEMPTS
    /\ now - loginAttempts[ip].lastAttempt < LOCKOUT_TIME

isLockedOut(ip) ==
    /\ ip \in DOMAIN loginAttempts
    /\ loginAttempts[ip].count >= MAX_ATTEMPTS
    /\ now - loginAttempts[ip].lastAttempt < LOCKOUT_TIME

\* isLockedOut's side effect: a record at the threshold whose window has
\* elapsed is deleted by the check itself.
attemptsAfterLockCheck(ip) ==
    IF /\ ip \in DOMAIN loginAttempts
       /\ loginAttempts[ip].count >= MAX_ATTEMPTS
       /\ ~(now - loginAttempts[ip].lastAttempt < LOCKOUT_TIME)
    THEN resetAttempts(ip)
    ELSE loginAttempts

recordAttempt(ip) ==
    LET attempts == IF ip \in DOMAIN loginAttempts THEN loginAttempts[ip] ELSE NoRecord
    IN  [i \in DOMAIN loginAttempts \cup {ip} |->
            IF i = ip
            THEN [count |-> attempts.count + 1, lastAttempt |-> now]
            ELSE loginAttempts[i]]

\* Constant-time comparison: equal lengths, then equal bytes.
verifyPin(storedPin, providedPin) ==
    /\ ~Falsy(storedPin)
    /\ ~Falsy(providedPin)
    /\ Len(storedPin) = Len(providedPin)
    /\ storedPin = providedPin

\* ---------------------------------------------------------------- responses
\* stage: "entry" for a response sent by the route handler itself, "timer" for
\* one sent by its setTimeout callback.
\* success is what the body or the redirect tells the client.
Response(stage, ip, status, attemptsLeft) ==
    [stage |-> stage, ip |-> ip, status |-> status, attemptsLeft |-> attemptsLeft,
     success |-> status \in {200, 302}]

NoResp == Response("none", "none", 0, 0)

Max(a, b) == IF a >= b THEN a ELSE b

\* --------------------------------------------------------- POST /verify-pin
\* The request arrives when the window of its address's record has elapsed.
AfterWindow(ip) ==
    /\ ip \in DOMAIN loginAttempts
    /\ now - loginAttempts[ip].lastAttempt >= LOCKOUT_TIME

\* The route handler up to the setTimeout.
VerifyPinRequest(ip, sess, pin) ==
    /\ crashed = "no"
    /\ IF NoPinConfigured
       THEN /\ sessionAuth' = [sessionAuth EXCEPT ![sess] = TRUE]
            /\ resp' = Response("entry", ip, 200, 0)
            /\ UNCHANGED <<loginAttempts, pending>>
       ELSE IF isLockedOut(ip)
       THEN /\ resp' = Response("entry", ip, 429, 0)
            /\ UNCHANGED <<loginAttempts, pending, sessionAuth>>
       ELSE /\ loginAttempts' = attemptsAfterLockCheck(ip)
            /\ IF Falsy(pin) \/ ~IsString(pin)
               THEN /\ resp' = Response("entry", ip, 400, 0)
                    /\ UNCHANGED <<pending, sessionAuth>>
               ELSE /\ BagCardinality(pending) < MaxPending
                    /\ pending' = pending (+) SetToBag({[ip |-> ip, sess |-> sess, pin |-> pin,
                                                       late |-> AfterWindow(ip)]})
                    /\ UNCHANGED <<resp, sessionAuth>>
    /\ UNCHANGED <<now, cookieJar, configVars, relayVars, clientVars, tabVars, trimVars, storeVars>>

\* The setTimeout callback of the route handler.
VerifyPinTimer(r) ==
    /\ crashed = "no"
    /\ BagIn(r, pending)
    /\ pending' = pending (-) SetToBag({r})
    /\ IF verifyPin(PIN, r.pin)
       THEN /\ loginAttempts' = resetAttempts(r.ip)
            /\ sessionAuth' = [sessionAuth EXCEPT ![r.sess] = TRUE]
            /\ cookieJar' = [cookieJar EXCEPT ![r.sess] = r.pin]
            /\ resp' = Response("timer", r.ip, 302, 0)
       ELSE /\ loginAttempts' = recordAttempt(r.ip)
            /\ resp' = Response("timer", r.ip, 401,
                                Max(0, MAX_ATTEMPTS - loginAttempts'[r.ip].count))
            /\ UNCHANGED <<sessionAuth, cookieJar>>
    /\ UNCHANGED <<now, configVars, relayVars, clientVars, tabVars, trimVars, storeVars>>

\* GET /api/require-pin with the PIN cookie holding guess: the answer is 200
\* with success true or false; the handler reads neither the address nor the
\* lockout records.
RequirePin(ip, guess) ==
    /\ crashed = "no"
    /\ resp' = [Response("require-pin", ip, 200, 0) EXCEPT
                  !.success = NoPinConfigured \/ (~Falsy(guess) /\ verifyPin(PIN, guess))]
    /\ resp' # resp
    /\ UNCHANGED <<now, loginAttempts, sessionAuth, cookieJar, pending,
                   configVars, relayVars, clientVars, tabVars, trimVars, storeVars>>

\* A cleanup that deletes every record, whatever its age.
CleanupLockoutsEveryRecord ==
    /\ crashed = "no"
    /\ loginAttempts # <<>>
    /\ loginAttempts' = <<>>
    /\ UNCHANGED <<now, sessionAuth, cookieJar, pending, resp, configVars, relayVars, clientVars, tabVars, trimVars, storeVars>>

\* The 60 s interval that deletes stale lockout records.
CleanupLockouts ==
    /\ crashed = "no"
    /\ \E ip \in DOMAIN loginAttempts : now - loginAttempts[ip].lastAttempt >= LOCKOUT_TIME
    /\ loginAttempts' = [ip \in {i \in DOMAIN loginAttempts :
                                    ~(now - loginAttempts[i].lastAttempt >= LOCKOUT_TIME)}
                            |-> loginAttempts[ip]]
    /\ UNCHANGED <<now, sessionAuth, cookieJar, pending, resp, configVars, relayVars, clientVars, tabVars, trimVars, storeVars>>

\* Date.now() advances.
Tick ==
    /\ now < MaxTime
    /\ now' = now + 1
    /\ UNCHANGED <<loginAttempts, sessionAuth, cookieJar, pending, resp, configVars, relayVars, clientVars, tabVars, trimVars, storeVars>>

\* ------------------------------------------------------------- cookie parse
\* parts[1].trim() throws a TypeError for an entry without '='.
CookieThrows(h) == \E i \in 1..Len(h) : Len(h[i]) < 2

\* parsedCookies[name]: the last entry of that (trimmed) name wins.
ParsedCookie(h, name) ==
    LET hits == {i \in 1..Len(h) : Trim(h[i][1]) = name}
    IN  IF hits = {} THEN Undefined
        ELSE Trim(h[CHOOSE i \in hits : \A j \in hits : j <= i][2])

\* ------------------------------------------------------------------ terminals
Prompt == "demo@dumbterm:/home/demo$ "

\* ptyModule.spawn(shell, [], {cols: 80, rows: 24, ...})
NewTerm ==
    [demo |-> DEMO_MODE, status |-> "running", cols |-> DEFAULT_COLS, rows |-> DEFAULT_ROWS,
     written |-> <<>>, produced |-> <<>>, commandBuffer |-> "", promptDue |-> DEMO_MODE,
     exits |-> 0]

\* The chunks DemoTerminal.write(data) emits, in order.
DemoEmits(t, data) ==
    IF data = "\r"
    THEN IF t.commandBuffer = ""
         THEN <<"\r\n", Prompt>>
         ELSE <<"\r\n", t.commandBuffer \o ": command not found\r\n", Prompt>>
    ELSE <<data>>

DemoBuffer(t, data) == IF data = "\r" THEN "" ELSE t.commandBuffer \o data

\* term.write(data): logged as written; the simulated terminal echoes.
\* A write that puts the newest input ahead of the earlier one.
TermWriteNewestFirst(t, data) ==
    IF t.demo
    THEN [t EXCEPT !.written = <<data>> \o @,
                   !.commandBuffer = DemoBuffer(t, data),
                   !.produced = @ \o DemoEmits(t, data)]
    ELSE [t EXCEPT !.written = <<data>> \o @]

TermWrite(t, data) ==
    IF t.demo
    THEN [t EXCEPT !.written = Append(@, data),
                   !.commandBuffer = DemoBuffer(t, data),
                   !.produced = @ \o DemoEmits(t, data)]
    ELSE [t EXCEPT !.written = Append(@, data)]

\* A resize that takes the rows for the columns.
TermResizeSwapped(t, size) ==
    IF ~t.demo /\ t.status = "exited"
    THEN t
    ELSE [t EXCEPT !.cols = size[2], !.rows = size[1]]

\* term.resize(cols, rows) of node-pty throws for a process that has exited
\* and for a size that is not positive; the simulated terminal takes any size.
ResizeThrows(t, size) ==
    ~t.demo /\ (t.status = "exited" \/ size[1] <= 0 \/ size[2] <= 0)

\* A resize that takes whatever size it is given, refused or not.
TermResizeUnchecked(t, size) == [t EXCEPT !.cols = size[1], !.rows = size[2]]

\* term.resize(cols, rows) inside the message handler's try: a throw leaves
\* the terminal as it was.
TermResize(t, size) ==
    IF ResizeThrows(t, size)
    THEN t
    ELSE [t EXCEPT !.cols = size[1], !.rows = size[2]]

\* A kill that never signals the process.
TermKillNothing(t) == t

\* term.kill(): SIGHUP to a live process; the simulated terminal emits 'exit'.
TermKill(t) ==
    IF t.demo
    THEN [t EXCEPT !.status = "exited", !.exits = @ + 1]
    ELSE IF t.status = "running" THEN [t EXCEPT !.status = "killed"] ELSE t

\* ---------------------------------------------------------------------- links
NoTerm == 0
NoCode == 0

\* No message has arrived on the link.
NoFrame == [type |-> "none", data |-> "", size |-> <<0, 0>>]

NewLink(h) ==
    [readyState |-> "OPEN", isAlive |-> TRUE, cookie |-> h, term |-> NoTerm,
     closeCode |-> NoCode, recv |-> <<>>, lastResize |-> <<>>, sent |-> <<>>,
     missed |-> 0, frames |-> 0, lastFrame |-> NoFrame]

\* ws.close(code): starts the closing handshake of an open socket.
WsClose(l, code) ==
    IF l.readyState = "OPEN" THEN [l EXCEPT !.readyState = "CLOSING", !.closeCode = code] ELSE l

\* ws.terminate(): destroys the socket.
WsTerminate(l) ==
    IF l.readyState = "CLOSED" THEN l ELSE [l EXCEPT !.readyState = "CLOSING"]

\* term.on('data'): ws.send only while the socket is open.
SendOutput(l, chunks) ==
    IF l.readyState = "OPEN" THEN [l EXCEPT !.sent = @ \o chunks] ELSE l

\* An uncaught exception ends the process: every socket is gone and every
\* shell loses its terminal.
Crash(cause, ls) ==
    /\ crashed' = cause
    /\ links' = [i \in DOMAIN ls |-> [ls[i] EXCEPT !.readyState = "CLOSED"]]
    /\ ptys' = [p \in DOMAIN ptys |->
                  IF ptys[p].status = "running" THEN [ptys[p] EXCEPT !.status = "killed"]
                  ELSE ptys[p]]

\* createTerminal(ws): spawn, then register the handlers on ws and term.
\* A createTerminal that hands a new link the terminal already running.
createTerminalShared(l) ==
    /\ crashed' = crashed
    /\ ptys' = IF ptys = <<>> THEN Append(ptys, NewTerm) ELSE ptys
    /\ links' = Append(links, [l EXCEPT !.term = 1])

createTerminal(l) ==
    /\ crashed' = crashed
    /\ ptys' = Append(ptys, NewTerm)
    /\ links' = Append(links, [l EXCEPT !.term = Len(ptys) + 1])

\* Whether the connection handler lets the request through to createTerminal.
Authorized(h) ==
    \/ NoPinConfigured
    \/ /\ h # NoCookieHeader
       /\ ~CookieThrows(h)
       /\ ~Falsy(ParsedCookie(h, PinCookieName))
       /\ verifyPin(PIN, ParsedCookie(h, PinCookieName))

\* verifyClient and wss.on('connection').
Connect(originOk, h, spawnOk) ==
    /\ crashed = "no"
    /\ Len(links) < MaxLinks
    /\ IF ~originOk
       THEN Crash("origin", links)
       ELSE IF Authorized(h)
       THEN IF DEMO_MODE \/ spawnOk
            THEN createTerminal(NewLink(h))
            ELSE Crash("spawn", Append(links, NewLink(h)))
       ELSE IF h # NoCookieHeader /\ CookieThrows(h)
       THEN Crash("cookie", Append(links, NewLink(h)))
       ELSE /\ links' = Append(links, WsClose(NewLink(h), POLICY_VIOLATION))
            /\ UNCHANGED <<crashed, ptys>>
    /\ UNCHANGED <<configVars, gateVars, clientVars, tabVars, trimVars, storeVars>>

\* A link-open from address ip with a valid origin: the connection handler
\* reads the Cookie header and nothing of the peer's address.
LinkOpen(ip, h) == Connect(TRUE, h, TRUE)

RECURSIVE Sum(_, _)
Sum(f, n) == IF n = 0 THEN 0 ELSE f[n] + Sum(f, n - 1)

RECURSIVE SumOver(_, _)
SumOver(f, n) == IF n = 0 THEN 0 ELSE Len(f[n]) + SumOver(f, n - 1)

\* The input messages received so far, over all links.
Received == SumOver([i \in DOMAIN links |-> links[i].recv], Len(links))
\* The chunks the shell processes have produced so far.
Produced == SumOver([p \in DOMAIN ptys |-> ptys[p].produced], Len(ptys))

\* The messages that have arrived so far, over all links.
Frames == Sum([i \in DOMAIN links |-> links[i].frames], Len(links))

\* ws.on('message'): registered by createTerminal only.
Message(i, m) ==
    /\ crashed = "no"
    /\ i \in DOMAIN links
    /\ links[i].readyState # "CLOSED"
    /\ Frames < MaxMsgs
    /\ LET p == links[i].term
           l == [links[i] EXCEPT
                    !.frames = @ + 1,
                    !.lastFrame = m,
                    !.recv = IF m.type = "input" THEN Append(@, m.data) ELSE @,
                    !.lastResize = IF /\ m.type = "resize"
                                      /\ (p = NoTerm \/ ~ResizeThrows(ptys[p], m.size))
                                   THEN m.size ELSE @]
       IN  IF p = NoTerm \/ m.type \notin {"input", "resize"}
           THEN /\ links' = [links EXCEPT ![i] = l]
                /\ ptys' = ptys
           ELSE IF m.type = "input"
           THEN LET t == TermWrite(ptys[p], m.data)
                IN  /\ ptys' = [ptys EXCEPT ![p] = t]
                    /\ links' = [links EXCEPT ![i] =
                          SendOutput(l, SubSeq(t.produced, Len(ptys[p].produced) + 1,
                                               Len(t.produced)))]
           ELSE /\ ptys' = [ptys EXCEPT ![p] = TermResize(@, m.size)]
                /\ links' = [links EXCEPT ![i] = l]
    /\ UNCHANGED <<crashed, configVars, gateVars, clientVars, tabVars, trimVars, storeVars>>

\* The link of terminal p.
LinkOf(p) == CHOOSE i \in DOMAIN links : links[i].term = p

\* term.on('data') for output of the shell process.
PtyData(p, chunk) ==
    /\ crashed = "no"
    /\ p \in DOMAIN ptys
    /\ ~ptys[p].demo
    /\ ptys[p].status # "exited"
    /\ Produced < MaxOut
    /\ ptys' = [ptys EXCEPT ![p].produced = Append(@, chunk)]
    /\ links' = [links EXCEPT ![LinkOf(p)] = SendOutput(@, <<chunk>>)]
    /\ UNCHANGED <<crashed, configVars, gateVars, clientVars, tabVars, trimVars, storeVars>>

\* The setImmediate of the DemoTerminal constructor emits the first prompt.
DemoPrompt(p) ==
    /\ crashed = "no"
    /\ p \in DOMAIN ptys
    /\ ptys[p].promptDue
    /\ ptys' = [ptys EXCEPT ![p].promptDue = FALSE, ![p].produced = Append(@, Prompt)]
    /\ links' = [links EXCEPT ![LinkOf(p)] = SendOutput(@, <<Prompt>>)]
    /\ UNCHANGED <<crashed, configVars, gateVars, clientVars, tabVars, trimVars, storeVars>>

\* An exit handler that leaves the link as it is.
PtyExitLeavesLink(p) ==
    /\ crashed = "no"
    /\ p \in DOMAIN ptys
    /\ ~ptys[p].demo
    /\ ptys[p].status # "exited"
    /\ ptys' = [ptys EXCEPT ![p].status = "exited", ![p].exits = @ + 1]
    /\ UNCHANGED <<links, crashed, configVars, gateVars, clientVars, tabVars, trimVars, storeVars>>

\* term.on('exit'): the shell process ends, by itself or after the SIGHUP.
PtyExit(p) ==
    /\ crashed = "no"
    /\ p \in DOMAIN ptys
    /\ ~ptys[p].demo
    /\ ptys[p].status # "exited"
    /\ ptys' = [ptys EXCEPT ![p].status = "exited", ![p].exits = @ + 1]
    /\ links' = [links EXCEPT ![LinkOf(p)] = WsClose(@, NoCode)]
    /\ UNCHANGED <<crashed, configVars, gateVars, clientVars, tabVars, trimVars, storeVars>>

\* The client closes the link (close frame, page unload): the server's socket
\* answers the frame and is closing.
PeerClose(i) ==
    /\ crashed = "no"
    /\ i \in DOMAIN links
    /\ links[i].readyState = "OPEN"
    /\ links' = [links EXCEPT ![i].readyState = "CLOSING"]
    /\ UNCHANGED <<crashed, ptys, configVars, gateVars, clientVars, tabVars, trimVars, storeVars>>

\* ws.on('error'): a transport error terminates the socket.
WsError(i) ==
    /\ crashed = "no"
    /\ i \in DOMAIN links
    /\ links[i].readyState = "OPEN"
    /\ links' = [links EXCEPT ![i] = WsTerminate(@)]
    /\ UNCHANGED <<crashed, ptys, configVars, gateVars, clientVars, tabVars, trimVars, storeVars>>

\* ws.on('close'), emitted once when the socket has closed: term.kill().
\* The simulated terminal's kill emits 'exit', whose handler finds the
\* socket no longer open.
SocketClosed(i) ==
    /\ crashed = "no"
    /\ i \in DOMAIN links
    /\ links[i].readyState = "CLOSING"
    /\ links' = [links EXCEPT ![i].readyState = "CLOSED"]
    /\ ptys' = IF links[i].term = NoTerm THEN ptys
               ELSE [ptys EXCEPT ![links[i].term] = TermKill(@)]
    /\ UNCHANGED <<crashed, configVars, gateVars, clientVars, tabVars, trimVars, storeVars>>

\* ws.on('pong')
Pong(i) ==
    /\ crashed = "no"
    /\ i \in DOMAIN links
    /\ links[i].readyState = "OPEN"
    /\ ~links[i].isAlive
    /\ links' = [links EXCEPT ![i].isAlive = TRUE, ![i].missed = 0]
    /\ UNCHANGED <<crashed, ptys, configVars, gateVars, clientVars, tabVars, trimVars, storeVars>>

\* The ticks an open link has met since it was opened or last answered.
Missed(l) == IF l.readyState = "OPEN" THEN l.missed + 1 ELSE l.missed

\* A liveness check that pings again instead of terminating.
HeartbeatOneOnlyPings(l) ==
    IF l.readyState = "CLOSED" THEN l
    ELSE [l EXCEPT !.isAlive = FALSE, !.missed = Missed(l)]

\* One link's turn in the heartbeat interval.
HeartbeatOne(l) ==
    IF l.readyState = "CLOSED" THEN l
    ELSE IF ~l.isAlive THEN [WsTerminate(l) EXCEPT !.missed = Missed(l)]
    ELSE [l EXCEPT !.isAlive = FALSE, !.missed = Missed(l)]

\* The 15 s heartbeat interval over wss.clients.
Heartbeat ==
    /\ crashed = "no"
    /\ links' = [i \in DOMAIN links |-> HeartbeatOne(links[i])]
    /\ links' # links
    /\ UNCHANGED <<crashed, ptys, configVars, gateVars, clientVars, tabVars, trimVars, storeVars>>

\* ===================================================== client: one tab's link
RECURSIVE Pow2(_)
Pow2(n) == IF n = 0 THEN 1 ELSE 2 * Pow2(n - 1)

NoTimeout == -1

\* new WebSocket(url) in connectWebSocket, with its connectionTimeout armed.
NewSocket ==
    [readyState |-> "CONNECTING", timeoutAt |-> clock + connectionTimeoutDelay,
     opened |-> FALSE, closeEvent |-> "none"]

\* The events a socket's closing delivers to onclose.
CloseEvents == {"abnormal", "clean", "policy"}

\* WebSocket.close() of the browser: a no-op on a closing or closed socket.
BrowserClose(sk) ==
    IF sk.readyState \in {"CONNECTING", "OPEN"}
    THEN [sk EXCEPT !.readyState = "CLOSING"]
    ELSE sk

\* ws.close() as the handlers call it: on the socket the ws variable holds.
CloseCurrent(ss) == [ss EXCEPT ![ws] = BrowserClose(@)]

\* A handleReconnect that takes a policy close for a lost connection.
handleReconnectRetriesPolicy(event) ==
    IF event = "clean"
    THEN /\ termLine' = "Connection closed normally."
         /\ UNCHANGED <<timers, redirected>>
    ELSE IF reconnectAttempts < maxReconnectAttempts
    THEN /\ timers' = timers (+) SetToBag({
                [due |-> clock + baseReconnectDelay * Pow2(reconnectAttempts),
                 delay |-> baseReconnectDelay * Pow2(reconnectAttempts)]})
         /\ termLine' = "Connection lost. Attempting to reconnect..."
         /\ UNCHANGED redirected
    ELSE /\ termLine' = "Connection lost. Please refresh the page to reconnect."
         /\ UNCHANGED <<timers, redirected>>

\* handleReconnect(event); event is "none" for the call without an argument.
handleReconnect(event) ==
    IF event = "policy"
    THEN /\ termLine' = "Authentication required. Redirecting to login..."
         /\ redirected' = TRUE
         /\ UNCHANGED timers
    ELSE IF event = "clean"
    THEN /\ termLine' = "Connection closed normally."
         /\ UNCHANGED <<timers, redirected>>
    ELSE IF reconnectAttempts < maxReconnectAttempts
    THEN /\ timers' = timers (+) SetToBag({
                [due |-> clock + baseReconnectDelay * Pow2(reconnectAttempts),
                 delay |-> baseReconnectDelay * Pow2(reconnectAttempts)]})
         /\ termLine' = "Connection lost. Attempting to reconnect..."
         /\ UNCHANGED redirected
    ELSE /\ termLine' = "Connection lost. Please refresh the page to reconnect."
         /\ UNCHANGED <<timers, redirected>>

\* connectWebSocket() on the sockets ss.
connectWebSocket(ss) ==
    /\ socks' = Append(ss, NewSocket)
    /\ ws' = Len(ss) + 1

ClientUp == ~redirected

\* The network answers a connection attempt within the second it is made (the
\* server accepts it or refuses it) or not at all (the attempt hangs).
Answerable(k) == socks[k].timeoutAt = clock + connectionTimeoutDelay

\* ws.onopen of socket k
\* An onopen that leaves the attempt counter alone.
SockOpenKeepsAttempts(k) ==
    /\ ClientUp
    /\ k \in DOMAIN socks
    /\ socks[k].readyState = "CONNECTING"
    /\ Answerable(k)
    /\ socks' = [socks EXCEPT ![k].readyState = "OPEN", ![k].timeoutAt = NoTimeout,
                              ![k].opened = TRUE]
    /\ UNCHANGED <<reconnectAttempts, clock, ws, timers, termLine, redirected, userEvents, configVars, gateVars, relayVars, tabVars, trimVars, storeVars>>

SockOpen(k) ==
    /\ ClientUp
    /\ k \in DOMAIN socks
    /\ socks[k].readyState = "CONNECTING"
    /\ Answerable(k)
    /\ socks' = [socks EXCEPT ![k].readyState = "OPEN", ![k].timeoutAt = NoTimeout,
                              ![k].opened = TRUE]
    /\ reconnectAttempts' = 0
    /\ UNCHANGED <<clock, ws, timers, termLine, redirected, userEvents, configVars, gateVars, relayVars, tabVars, trimVars, storeVars>>

\* The connection of socket k fails or is lost: onerror (for an abnormal end)
\* closes the socket the ws variable holds, then onclose runs handleReconnect.
SockEnds(k, event) ==
    /\ ClientUp
    /\ k \in DOMAIN socks
    /\ \/ socks[k].readyState = "CONNECTING" /\ Answerable(k) /\ event = "abnormal"
       \/ socks[k].readyState = "OPEN"
       \/ socks[k].readyState = "CLOSING" /\ event = "abnormal"
       \/ socks[k].readyState = "CLOSING" /\ socks[k].opened /\ event = "clean"
    /\ LET ended == [socks EXCEPT ![k].readyState = "CLOSED", ![k].closeEvent = event]
       IN  socks' = IF event = "abnormal" THEN [ended EXCEPT ![ws] = BrowserClose(@)]
                    ELSE ended
    /\ handleReconnect(event)
    /\ UNCHANGED <<clock, ws, reconnectAttempts, userEvents, configVars, gateVars, relayVars, tabVars, trimVars, storeVars>>

\* The connectionTimeout of socket k, 5 s after its creation.
ConnTimeout(k) ==
    /\ ClientUp
    /\ k \in DOMAIN socks
    /\ socks[k].timeoutAt = clock
    /\ IF socks[ws].readyState # "OPEN"
       THEN /\ socks' = [CloseCurrent(socks) EXCEPT ![k].timeoutAt = NoTimeout]
            /\ handleReconnect("none")
       ELSE /\ socks' = [socks EXCEPT ![k].timeoutAt = NoTimeout]
            /\ UNCHANGED <<timers, termLine, redirected>>
    /\ UNCHANGED <<clock, ws, reconnectAttempts, userEvents, configVars, gateVars, relayVars, tabVars, trimVars, storeVars>>

\* A reconnect setTimeout fires; the tab has made fewer than maxSocks sockets.
ReconnectTimerUpTo(t, maxSocks) ==
    /\ ClientUp
    /\ BagIn(t, timers)
    /\ t.due = clock
    /\ Len(socks) < maxSocks
    /\ timers' = timers (-) SetToBag({t})
    /\ reconnectAttempts' = reconnectAttempts + 1
    /\ connectWebSocket(socks)
    /\ UNCHANGED <<clock, termLine, redirected, userEvents, configVars, gateVars, relayVars, tabVars, trimVars, storeVars>>

ReconnectTimer(t) == ReconnectTimerUpTo(t, MaxSocks)

\* terminal.onData: a keystroke.
UserInput ==
    /\ ClientUp
    /\ userEvents < MaxUserEvents
    /\ userEvents' = userEvents + 1
    /\ socks[ws].readyState # "OPEN"
    /\ termLine' = "Connection not available. Attempting to reconnect..."
    /\ IF reconnectAttempts < maxReconnectAttempts
       THEN Len(socks) < MaxSocks /\ connectWebSocket(socks)
       ELSE UNCHANGED <<socks, ws>>
    /\ UNCHANGED <<clock, reconnectAttempts, timers, redirected, configVars, gateVars, relayVars, tabVars, trimVars, storeVars>>

\* visibilitychange to 'visible'
PageVisible ==
    /\ ClientUp
    /\ userEvents < MaxUserEvents
    /\ userEvents' = userEvents + 1
    /\ IF socks[ws].readyState = "CLOSED"
       THEN /\ Len(socks) < MaxSocks
            /\ reconnectAttempts' = 0
            /\ connectWebSocket(socks)
       ELSE UNCHANGED <<reconnectAttempts, socks, ws>>
    /\ UNCHANGED <<clock, timers, termLine, redirected, configVars, gateVars, relayVars, tabVars, trimVars, storeVars>>

\* A second passes once every timer due now has fired and every socket the
\* client closed has delivered its close event.
ClockTickUpTo(maxClock) ==
    /\ ClientUp
    /\ clock < maxClock
    /\ \A k \in DOMAIN socks : socks[k].readyState # "CLOSING"
    /\ \A t \in BagToSet(timers) : t.due # clock
    /\ \A k \in DOMAIN socks : socks[k].timeoutAt # clock
    /\ clock' = clock + 1
    /\ UNCHANGED <<socks, ws, reconnectAttempts, timers, termLine, redirected,
                   userEvents, configVars, gateVars, relayVars, tabVars, trimVars, storeVars>>

ClockTick == ClockTickUpTo(MaxClock)

\* ================================================== client: the tab manager
\* this.activeTabId = null
NoTab == 0
\* storageManager.get('sessionState') with nothing stored
NoState == [activeTabId |-> NoTab, tabCounter |-> 0, terminals |-> <<>>]

\* String(id) for the identifiers the model reaches
Digit(n) == <<"0", "1", "2", "3", "4", "5", "6", "7", "8", "9">>[n + 1]

\* createTab(id): the span's text, `Term${id}`
DefaultName(id) == <<"T", "e", "r", "m", Digit(id)>>

\* What the user leaves in the rename input.
RenameInputs == {<<>>, <<" ">>, <<"x">>, <<" ", "x", " ">>}

\* createTab, createTerminalContainer, initTerminal: a tab with its socket.
NewTabRec(id) == [id |-> id, name |-> DefaultName(id), ws |-> "CONNECTING"]

Ids(ts) == {ts[i].id : i \in DOMAIN ts}
\* Math.max(...ids)
MaxOf(S) == CHOOSE m \in S : \A x \in S : x <= m
IndexOf(ts, id) == CHOOSE i \in DOMAIN ts : ts[i].id = id
Without(ts, i) == SubSeq(ts, 1, i - 1) \o SubSeq(ts, i + 1, Len(ts))
InsertAt(ts, i, e) == SubSeq(ts, 1, i - 1) \o <<e>> \o SubSeq(ts, i, Len(ts))

\* The object saveSessionState builds from a manager's fields.
\* The identifiers given to tabs since the tab set was last empty: those of
\* the open tabs and of the tabs closed since.
HandedOut == Ids(terminals) \cup closedIds

SessionStateOf(active, counter, ts) ==
    [activeTabId |-> active, tabCounter |-> counter,
     terminals |-> [i \in DOMAIN ts |->
                       [id |-> ts[i].id, name |-> ts[i].name, order |-> i - 1]]]

\* tab.querySelector('span') is null for the tab under rename: reading its
\* textContent throws and saveSessionState stores nothing.
SaveThrows == renaming # NoTab

\* What localStorage holds after saveSessionState() on the given fields.
\* An item of localStorage that is not JSON.
Unparseable == [activeTabId |-> NoTab, tabCounter |-> 0 - 1, terminals |-> <<>>]

\* _checkAvailability(): the test write succeeds.
checkAvailability(mode) == mode = "ok"

\* StorageManager.set('sessionState', value): what it returns, whether an
\* exception leaves it, and the item the store holds afterwards.
StoreSet(value) ==
    IF ~isAvailable THEN [returned |-> FALSE, raised |-> FALSE, item |-> storage]
    ELSE IF storeMode # "ok" THEN [returned |-> FALSE, raised |-> FALSE, item |-> storage]
    ELSE [returned |-> TRUE, raised |-> FALSE, item |-> value]

\* StorageManager.get without its try/catch.
StoreGetUncaught(available, mode, item) ==
    IF ~available THEN [returned |-> NoState, raised |-> FALSE]
    ELSE IF mode = "disabled" \/ item = Unparseable THEN [returned |-> NoState, raised |-> TRUE]
    ELSE [returned |-> item, raised |-> FALSE]

\* StorageManager.get('sessionState') of a manager whose isAvailable is
\* available: the default value null (NoState) or the parsed item.
StoreGet(available, mode, item) ==
    IF ~available THEN [returned |-> NoState, raised |-> FALSE]
    ELSE IF mode = "disabled" THEN [returned |-> NoState, raised |-> FALSE]
    ELSE IF item = NoState THEN [returned |-> NoState, raised |-> FALSE]
    ELSE IF item = Unparseable THEN [returned |-> NoState, raised |-> FALSE]
    ELSE [returned |-> item, raised |-> FALSE]

Saved(active, counter, ts) ==
    IF SaveThrows THEN storage ELSE StoreSet(SessionStateOf(active, counter, ts)).item

\* Array.prototype.sort by (a.order || 0): a stable insertion of each entry.
RECURSIVE SortByOrder(_)
SortByOrder(es) ==
    IF es = <<>> THEN <<>>
    ELSE LET rest == SortByOrder(SubSeq(es, 1, Len(es) - 1))
             e == es[Len(es)]
             after == {i \in DOMAIN rest : rest[i].order > e.order}
             at == IF after = {} THEN Len(rest) + 1
                   ELSE CHOOSE i \in after : \A j \in after : i <= j
         IN  InsertAt(rest, at, e)

\* The fields of a fresh manager after loadSessionState() on the stored state.
\* A load that takes the saved active identifier as it is.
LoadedWithoutFallback(st) ==
    IF st # NoState /\ Len(st.terminals) > 0
    THEN LET es == SortByOrder(st.terminals)
             ts == [i \in DOMAIN es |->
                      [id |-> es[i].id, name |-> es[i].name, ws |-> "CONNECTING"]]
         IN  [terminals |-> ts,
              tabCounter |-> MaxOf(Ids(ts)) + 1,
              activeTabId |-> st.activeTabId]
    ELSE [terminals |-> <<NewTabRec(1)>>, tabCounter |-> 1 + 1, activeTabId |-> 1]

Loaded(st) ==
    IF st # NoState /\ Len(st.terminals) > 0
    THEN LET es == SortByOrder(st.terminals)
             ts == [i \in DOMAIN es |->
                      [id |-> es[i].id, name |-> es[i].name, ws |-> "CONNECTING"]]
         IN  [terminals |-> ts,
              tabCounter |-> MaxOf(Ids(ts)) + 1,
              activeTabId |-> IF st.activeTabId # NoTab /\ st.activeTabId \in Ids(ts)
                              THEN st.activeTabId ELSE ts[1].id]
    ELSE [terminals |-> <<NewTabRec(1)>>, tabCounter |-> 1 + 1, activeTabId |-> 1]

TabsIdle == renaming = NoTab

\* A handleNewTab that numbers the new tab by the count of open tabs.
handleNewTabCountsTabs ==
    /\ TabsIdle
    /\ Len(terminals) < MaxTabs
    /\ tabCounter <= MaxTabId
    /\ terminals' = Append(terminals, NewTabRec(Len(terminals) + 1))
    /\ tabCounter' = tabCounter + 1
    /\ activeTabId' = Len(terminals) + 1
    /\ UNCHANGED <<renaming, storage, orphans, closedIds, configVars, gateVars, relayVars, clientVars, trimVars, storeVars>>

\* handleNewTab: the new-tab button or shortcut.  activateTab(id, true) does
\* not save.
handleNewTab ==
    /\ TabsIdle
    /\ Len(terminals) < MaxTabs
    /\ tabCounter <= MaxTabId
    /\ terminals' = Append(terminals, NewTabRec(tabCounter))
    /\ tabCounter' = tabCounter + 1
    /\ activeTabId' = tabCounter
    /\ UNCHANGED <<renaming, storage, orphans, closedIds, configVars, gateVars, relayVars, clientVars, trimVars, storeVars>>

\* handleTabClose without the handleNewTab() of the empty case.
handleTabCloseLeavesEmpty(id) ==
    /\ TabsIdle
    /\ id \in Ids(terminals)
    /\ LET rest == Without(terminals, IndexOf(terminals, id))
       IN  /\ terminals' = rest
           /\ tabCounter' = IF Len(rest) = 0 THEN 1 ELSE MaxOf(Ids(rest)) + 1
           /\ activeTabId' = IF activeTabId = id /\ Len(rest) > 0
                             THEN rest[Len(rest)].id ELSE activeTabId
    /\ storage' = Saved(activeTabId', tabCounter', terminals')
    /\ UNCHANGED <<renaming, orphans, closedIds, configVars, gateVars, relayVars, clientVars, trimVars, storeVars>>

\* handleTabClose with a counter that only grows while a tab is left.
handleTabCloseKeepsCounter(id) ==
    /\ TabsIdle
    /\ id \in Ids(terminals)
    /\ BagCardinality(orphans) < MaxOrphans
    /\ LET i == IndexOf(terminals, id)
           rest == Without(terminals, i)
       IN  /\ IF Len(rest) = 0
              THEN /\ terminals' = <<NewTabRec(1)>>
                   /\ tabCounter' = 1 + 1
                   /\ activeTabId' = 1
                   /\ closedIds' = {}
              ELSE /\ terminals' = rest
                   /\ tabCounter' = tabCounter
                   /\ activeTabId' = IF activeTabId = id THEN rest[Len(rest)].id
                                     ELSE activeTabId
                   /\ closedIds' = closedIds \cup {id}
           /\ orphans' = orphans (+) SetToBag({terminals[i].ws})
    /\ storage' = Saved(activeTabId', tabCounter', terminals')
    /\ UNCHANGED <<renaming, configVars, gateVars, relayVars, clientVars, trimVars, storeVars>>

\* handleTabClose that activates the newest of the remaining tabs, the one
\* with the highest identifier, instead of the last in order.
handleTabCloseActivatesNewest(id) ==
    /\ TabsIdle
    /\ id \in Ids(terminals)
    /\ BagCardinality(orphans) < MaxOrphans
    /\ LET i == IndexOf(terminals, id)
           rest == Without(terminals, i)
       IN  /\ IF Len(rest) = 0
              THEN /\ terminals' = <<NewTabRec(1)>>
                   /\ tabCounter' = 1 + 1
                   /\ activeTabId' = 1
                   /\ closedIds' = {}
              ELSE /\ terminals' = rest
                   /\ tabCounter' = MaxOf(Ids(rest)) + 1
                   /\ activeTabId' = IF activeTabId = id THEN MaxOf(Ids(rest))
                                     ELSE activeTabId
                   /\ closedIds' = closedIds \cup {id}
           /\ orphans' = orphans (+) SetToBag({terminals[i].ws})
    /\ storage' = Saved(activeTabId', tabCounter', terminals')
    /\ UNCHANGED <<renaming, configVars, gateVars, relayVars, clientVars, trimVars, storeVars>>

\* The sockets left behind once the tab at index i is gone: handleTabClose
\* disposes the emulator and removes the elements, and never touches the ws of
\* the initTerminal closure.
OrphansAfterClose(i) ==
    IF terminals[i].ws = "CLOSED" THEN orphans
    ELSE orphans (+) SetToBag({terminals[i].ws})

\* A handleTabClose that leaves the active identifier as it is while tabs remain.
handleTabCloseKeepsActive(id) ==
    /\ TabsIdle
    /\ id \in Ids(terminals)
    /\ BagCardinality(OrphansAfterClose(IndexOf(terminals, id))) <= MaxOrphans
    /\ LET i == IndexOf(terminals, id)
           rest == Without(terminals, i)
       IN  /\ IF Len(rest) = 0
              THEN /\ terminals' = <<NewTabRec(1)>>
                   /\ tabCounter' = 1 + 1
                   /\ activeTabId' = 1
                   /\ closedIds' = {}
              ELSE /\ terminals' = rest
                   /\ tabCounter' = MaxOf(Ids(rest)) + 1
                   /\ activeTabId' = activeTabId
                   /\ closedIds' = closedIds \cup {id}
           /\ orphans' = OrphansAfterClose(i)
    /\ storage' = Saved(activeTabId', tabCounter', terminals')
    /\ UNCHANGED <<renaming, configVars, gateVars, relayVars, clientVars, trimVars, storeVars>>

\* handleTabClose(id)
handleTabClose(id) ==
    /\ TabsIdle
    /\ id \in Ids(terminals)
    /\ BagCardinality(OrphansAfterClose(IndexOf(terminals, id))) <= MaxOrphans
    /\ LET i == IndexOf(terminals, id)
           rest == Without(terminals, i)
       IN  /\ IF Len(rest) = 0
              THEN /\ terminals' = <<NewTabRec(1)>>
                   /\ tabCounter' = 1 + 1
                   /\ activeTabId' = 1
                   /\ closedIds' = {}
              ELSE /\ terminals' = rest
                   /\ tabCounter' = MaxOf(Ids(rest)) + 1
                   /\ activeTabId' = IF activeTabId = id THEN rest[Len(rest)].id
                                     ELSE activeTabId
                   /\ closedIds' = closedIds \cup {id}
           /\ orphans' = OrphansAfterClose(i)
    /\ storage' = Saved(activeTabId', tabCounter', terminals')
    /\ UNCHANGED <<renaming, configVars, gateVars, relayVars, clientVars, trimVars, storeVars>>

\* handleTabClick(id): activateTab(id), which saves.
handleTabClick(id) ==
    /\ TabsIdle
    /\ id \in Ids(terminals)
    /\ activeTabId' = id
    /\ storage' = Saved(id, tabCounter, terminals)
    /\ UNCHANGED <<terminals, tabCounter, renaming, orphans, closedIds,
                   configVars, gateVars, relayVars, clientVars, trimVars, storeVars>>

\* cycleToNextTab: the tab after the active one, the first after the last.
cycleToNextTab ==
    /\ TabsIdle
    /\ Len(terminals) > 1
    /\ activeTabId # NoTab
    /\ LET currentIndex == IndexOf(terminals, activeTabId)
           nextIndex == (currentIndex % Len(terminals)) + 1
       IN  /\ activeTabId' = terminals[nextIndex].id
           /\ storage' = Saved(activeTabId', tabCounter, terminals)
    /\ UNCHANGED <<terminals, tabCounter, renaming, orphans, closedIds,
                   configVars, gateVars, relayVars, clientVars, trimVars, storeVars>>

\* cycleToPreviousTab: the tab before the active one, the last before the first.
cycleToPreviousTab ==
    /\ TabsIdle
    /\ Len(terminals) > 1
    /\ activeTabId # NoTab
    /\ LET currentIndex == IndexOf(terminals, activeTabId)
           previousIndex == ((currentIndex - 2 + Len(terminals)) % Len(terminals)) + 1
       IN  /\ activeTabId' = terminals[previousIndex].id
           /\ storage' = Saved(activeTabId', tabCounter, terminals)
    /\ UNCHANGED <<terminals, tabCounter, renaming, orphans, closedIds,
                   configVars, gateVars, relayVars, clientVars, trimVars, storeVars>>

\* The modifier with the digit n: the n-th tab, if there is one.
jumpToTab(n) ==
    /\ TabsIdle
    /\ n \in DOMAIN terminals
    /\ activeTabId' = terminals[n].id
    /\ storage' = Saved(activeTabId', tabCounter, terminals)
    /\ UNCHANGED <<terminals, tabCounter, renaming, orphans, closedIds,
                   configVars, gateVars, relayVars, clientVars, trimVars, storeVars>>

\* handleTabRename(id): the span gives way to the input.
handleTabRename(id) ==
    /\ TabsIdle
    /\ id \in Ids(terminals)
    /\ renaming' = id
    /\ UNCHANGED <<terminals, activeTabId, tabCounter, storage, orphans, closedIds,
                   configVars, gateVars, relayVars, clientVars, trimVars, storeVars>>

\* What ends an edit: the input loses focus, or Enter or Escape is pressed.
RenameKeys == {"blur", "Enter", "Escape"}

\* An end of the edit in which Escape leaves the typed text in the input.
finishRenameEscapeApplies(value, key) ==
    /\ renaming # NoTab
    /\ \E blurFires \in (IF key = "blur" THEN {FALSE} ELSE BOOLEAN) :
       LET i == IndexOf(terminals, renaming)
           currentName == terminals[i].name
           newName == IF Trim(value) = <<>> THEN currentName ELSE Trim(value)
       IN  /\ terminals' = [terminals EXCEPT ![i].name = newName]
           /\ storage' = StoreSet(SessionStateOf(activeTabId, tabCounter, terminals')).item
    /\ renaming' = NoTab
    /\ UNCHANGED <<activeTabId, tabCounter, orphans, closedIds,
                   configVars, gateVars, relayVars, clientVars, trimVars, storeVars>>

\* The listeners of the rename input holding value: blur calls finishRename,
\* Enter calls it, Escape puts currentName back into the input and calls it.
\* Replacing the focused input may make the browser fire blur inside the call
\* (blurFires); that second call finds hasFinishedRename set and returns.
finishRename(value, key) ==
    /\ renaming # NoTab
    /\ \E blurFires \in (IF key = "blur" THEN {FALSE} ELSE BOOLEAN) :
       LET i == IndexOf(terminals, renaming)
           currentName == terminals[i].name
           inputValue == IF key = "Escape" THEN currentName ELSE value
           newName == IF Trim(inputValue) = <<>> THEN currentName ELSE Trim(inputValue)
       IN  /\ terminals' = [terminals EXCEPT ![i].name = newName]
           /\ storage' = StoreSet(SessionStateOf(activeTabId, tabCounter, terminals')).item
    /\ renaming' = NoTab
    /\ UNCHANGED <<activeTabId, tabCounter, orphans, closedIds,
                   configVars, gateVars, relayVars, clientVars, trimVars, storeVars>>

\* A drag after which the names stay with the positions, not with the tabs.
dragTabNamesStay(id, pos) ==
    /\ TabsIdle
    /\ id \in Ids(terminals)
    /\ pos \in DOMAIN terminals
    /\ LET i == IndexOf(terminals, id)
           moved == InsertAt(Without(terminals, i), pos, terminals[i])
       IN  terminals' = [k \in DOMAIN moved |-> [moved[k] EXCEPT !.name = terminals[k].name]]
    /\ activeTabId' = id
    /\ storage' = Saved(id, tabCounter, terminals')
    /\ UNCHANGED <<tabCounter, renaming, orphans, closedIds,
                   configVars, gateVars, relayVars, clientVars, trimVars, storeVars>>

\* A drag of tab id to position pos: handleDragStart activates the tab,
\* handleDragOver moves its element, handleDragEnd runs updateTabOrder and saves.
dragTab(id, pos) ==
    /\ TabsIdle
    /\ id \in Ids(terminals)
    /\ pos \in DOMAIN terminals
    /\ LET i == IndexOf(terminals, id)
       IN  terminals' = InsertAt(Without(terminals, i), pos, terminals[i])
    /\ activeTabId' = id
    /\ storage' = Saved(id, tabCounter, terminals')
    /\ UNCHANGED <<tabCounter, renaming, orphans, closedIds,
                   configVars, gateVars, relayVars, clientVars, trimVars, storeVars>>

\* terminal.onData of the tab at index i: a keystroke goes out on an open
\* socket, otherwise a connection is started; the state is saved.
tabInput(i) ==
    /\ TabsIdle
    /\ i \in DOMAIN terminals
    /\ terminals' = IF terminals[i].ws = "OPEN" THEN terminals
                    ELSE [terminals EXCEPT ![i].ws = "CONNECTING"]
    /\ storage' = Saved(activeTabId, tabCounter, terminals')
    /\ UNCHANGED <<activeTabId, tabCounter, renaming, orphans, closedIds,
                   configVars, gateVars, relayVars, clientVars, trimVars, storeVars>>

\* The setTimeout of ws.onmessage, 1 s after output arrived on an open link.
saveAfterOutput ==
    /\ \/ \E i \in DOMAIN terminals : terminals[i].ws = "OPEN"
       \/ BagIn("OPEN", orphans)
    /\ storage' = Saved(activeTabId, tabCounter, terminals)
    /\ UNCHANGED <<terminals, activeTabId, tabCounter, renaming, orphans, closedIds,
                   configVars, gateVars, relayVars, clientVars, trimVars, storeVars>>

\* The page is reloaded: every socket of the page goes with it and a fresh
\* manager's constructor runs loadSessionState.
Reload ==
    /\ isAvailable' = checkAvailability(storeMode)
    /\ LET got == StoreGet(isAvailable', storeMode, storage)
           m == Loaded(got.returned)
       IN  IF got.raised
           THEN \* the constructor is left before a tab exists
                /\ terminals' = <<>>
                /\ tabCounter' = 1
                /\ activeTabId' = NoTab
           ELSE /\ terminals' = m.terminals
                /\ tabCounter' = m.tabCounter
                /\ activeTabId' = m.activeTabId
    /\ renaming' = NoTab
    /\ orphans' = EmptyBag
    /\ closedIds' = {}
    /\ UNCHANGED <<storage, storeMode, configVars, gateVars, relayVars, clientVars, trimVars>>

\* The browser's store fills up, is switched off, or works again.
storeModeChanges(mode) ==
    /\ mode # storeMode
    /\ storeMode' = mode
    /\ UNCHANGED <<isAvailable, configVars, gateVars, relayVars, clientVars, tabVars, trimVars>>

\* Snapshots the store can hold that this manager did not write: entries
\* listed out of order with an active identifier that is not among them, no
\* active identifier, and no entries.
ForeignSnapshots ==
    { [activeTabId |-> 3, tabCounter |-> 3,
       terminals |-> << [id |-> 1, name |-> DefaultName(1), order |-> 1],
                        [id |-> 2, name |-> <<"x">>, order |-> 0] >>],
      [activeTabId |-> NoTab, tabCounter |-> 3,
       terminals |-> << [id |-> 2, name |-> <<"x">>, order |-> 0] >>],
      [activeTabId |-> 1, tabCounter |-> 1 + 1, terminals |-> <<>>] }

\* The sessionState item is one written earlier, by another page or version.
storeHoldsSnapshot(st) ==
    /\ storeMode = "ok"
    /\ storage # st
    /\ storage' = st
    /\ UNCHANGED <<terminals, activeTabId, tabCounter, renaming, orphans, closedIds,
                   configVars, gateVars, relayVars, clientVars, trimVars, storeVars>>

\* Something else leaves text that is not JSON under the sessionState key.
storeCorrupted ==
    /\ storeMode = "ok"
    /\ storage # Unparseable
    /\ storage' = Unparseable
    /\ UNCHANGED <<terminals, activeTabId, tabCounter, renaming, orphans, closedIds,
                   configVars, gateVars, relayVars, clientVars, trimVars, storeVars>>

\* ws.onopen of the tab at index i
tabSocketOpens(i) ==
    /\ i \in DOMAIN terminals
    /\ terminals[i].ws = "CONNECTING"
    /\ terminals' = [terminals EXCEPT ![i].ws = "OPEN"]
    /\ UNCHANGED <<activeTabId, tabCounter, renaming, storage, orphans, closedIds,
                   configVars, gateVars, relayVars, clientVars, trimVars, storeVars>>

\* ws.onclose of the tab at index i
tabSocketCloses(i) ==
    /\ i \in DOMAIN terminals
    /\ terminals[i].ws # "CLOSED"
    /\ terminals' = [terminals EXCEPT ![i].ws = "CLOSED"]
    /\ UNCHANGED <<activeTabId, tabCounter, renaming, storage, orphans, closedIds,
                   configVars, gateVars, relayVars, clientVars, trimVars, storeVars>>

\* A socket left behind by a closed tab changes state: it opens, or the
\* server or the network ends it.
orphanSocket(from, to) ==
    /\ BagIn(from, orphans)
    /\ \/ from = "CONNECTING" /\ to = "OPEN"
       \/ to = "CLOSED"
    /\ orphans' = IF to = "CLOSED" THEN orphans (-) SetToBag({from})
                  ELSE (orphans (-) SetToBag({from})) (+) SetToBag({to})
    /\ UNCHANGED <<terminals, activeTabId, tabCounter, renaming, storage, closedIds,
                   configVars, gateVars, relayVars, clientVars, trimVars, storeVars>>

\* ==================================== client: the transcript saveSessionState keeps
\* Text is a tuple of characters; these three stand for the characters
\* \n, \r and \u001b.
LF == "\n"
CR == "\r"
ESC == "ESC"

\* \s, \d and \w over the characters the model uses
WhiteSpace == {" ", "\t", CR, LF}
DigitChars == {"1", "2"}
WordChars == {"a", "b", "h", "l", "m", "s", "x", "_"} \cup DigitChars
PromptSigils == {"#", "$", ">"}
\* . matches everything but a line terminator
Dot(c) == c \notin {LF, CR}

\* content before any save of the tab
NotSaved == <<"#unsaved">>

\* String.prototype.trimEnd
RECURSIVE trimEnd(_)
trimEnd(l) ==
    IF Len(l) > 0 /\ l[Len(l)] \in WhiteSpace THEN trimEnd(SubSeq(l, 1, Len(l) - 1))
    ELSE l

\* serializedContent.split(/\r?\n/): cut at every \n, an \r right before it
\* belonging to the separator.
RECURSIVE Split(_)
Split(b) ==
    LET at == {i \in DOMAIN b : b[i] = LF}
    IN  IF at = {} THEN <<b>>
        ELSE LET k == CHOOSE i \in at : \A j \in at : i <= j
                 first == IF k > 1 /\ b[k - 1] = CR THEN SubSeq(b, 1, k - 2)
                          ELSE SubSeq(b, 1, k - 1)
             IN  <<first>> \o Split(SubSeq(b, k + 1, Len(b)))

\* lines.join('\n')
RECURSIVE JoinLines(_)
JoinLines(ls) ==
    IF Len(ls) = 0 THEN <<>>
    ELSE IF Len(ls) = 1 THEN ls[1]
    ELSE ls[1] \o <<LF>> \o JoinLines(Tail(ls))

AllIn(l, from, to, S) == \A i \in from..to : l[i] \in S
\* \s*$ from position k on
SpaceToEnd(l, k) == AllIn(l, k, Len(l), WhiteSpace)

\* /^.*@.*[:~][#$>]\s*$/
StandardPrompt(l) ==
    \E a \in DOMAIN l, k \in DOMAIN l :
        /\ a < k /\ k + 1 <= Len(l)
        /\ l[a] = "@"
        /\ \A i \in 1..(k - 1) : Dot(l[i])
        /\ l[k] \in {":", "~"}
        /\ l[k + 1] \in PromptSigils
        /\ SpaceToEnd(l, k + 2)

\* /^[^@]+@[^:]+:[^$#>]+[#$>]\s*$/
BashPrompt(l) ==
    \E a \in DOMAIN l, c \in DOMAIN l, g \in DOMAIN l :
        /\ 2 <= a /\ a + 2 <= c /\ c + 2 <= g
        /\ \A i \in 1..(a - 1) : l[i] # "@"
        /\ l[a] = "@"
        /\ \A i \in (a + 1)..(c - 1) : l[i] # ":"
        /\ l[c] = ":"
        /\ \A i \in (c + 1)..(g - 1) : l[i] \notin PromptSigils
        /\ l[g] \in PromptSigils
        /\ SpaceToEnd(l, g + 1)

\* /^[$#>]\s*$/
SimplePrompt(l) == Len(l) >= 1 /\ l[1] \in PromptSigils /\ SpaceToEnd(l, 2)

\* /^\w+:\s*[\w/~]+[$#>]\s*$/
DirectoryPrompt(l) ==
    \E c \in DOMAIN l, d \in DOMAIN l, g \in DOMAIN l :
        /\ 2 <= c /\ c < d /\ d < g
        /\ AllIn(l, 1, c - 1, WordChars)
        /\ l[c] = ":"
        /\ AllIn(l, c + 1, d - 1, WhiteSpace)
        /\ AllIn(l, d, g - 1, WordChars \cup {"/", "~"})
        /\ l[g] \in PromptSigils
        /\ SpaceToEnd(l, g + 1)

\* /^\s*\u001b\[\d+(?:;\d+)*m/
ColoredPrompt(l) ==
    \E e \in DOMAIN l, m \in DOMAIN l :
        /\ e + 3 <= m
        /\ AllIn(l, 1, e - 1, WhiteSpace)
        /\ l[e] = ESC /\ l[e + 1] = "["
        /\ AllIn(l, e + 2, m - 1, DigitChars \cup {";"})
        /\ l[e + 2] \in DigitChars /\ l[m - 1] \in DigitChars
        /\ \A i \in (e + 2)..(m - 2) : ~(l[i] = ";" /\ l[i + 1] = ";")
        /\ l[m] = "m"

\* /\u001b\[\?\d+[hl]/
InputModeSequence(l) ==
    \E e \in DOMAIN l, f \in DOMAIN l :
        /\ e + 4 <= f
        /\ l[e] = ESC /\ l[e + 1] = "[" /\ l[e + 2] = "?"
        /\ AllIn(l, e + 3, f - 1, DigitChars)
        /\ l[f] \in {"h", "l"}

\* promptPatterns.some(pattern => pattern.test(line))
isPrompt(l) ==
    \/ StandardPrompt(l)
    \/ BashPrompt(l)
    \/ SimplePrompt(l)
    \/ DirectoryPrompt(l)
    \/ ColoredPrompt(l)
    \/ InputModeSequence(l)

\* The scan that takes the first line from the end that is not blank,
\* whatever it looks like.
RECURSIVE lastContentLineIndexAnyLine(_, _)
lastContentLineIndexAnyLine(lines, i) ==
    IF i = 0 THEN 0
    ELSE IF trimEnd(lines[i]) = <<>> THEN lastContentLineIndexAnyLine(lines, i - 1)
    ELSE i

\* The loop from the last line down: the index of the first line met that is
\* neither blank nor a prompt, 0 when there is none (seenNonPrompt false).
RECURSIVE lastContentLineIndex(_, _)
lastContentLineIndex(lines, i) ==
    IF i = 0 THEN 0
    ELSE LET line == trimEnd(lines[i])
         IN  IF line = <<>> THEN lastContentLineIndex(lines, i - 1)
             ELSE IF isPrompt(line) THEN lastContentLineIndex(lines, i - 1)
             ELSE i

\* The content saveSessionState stores for a tab whose serialization is b.
trimmedContent(b) ==
    IF b = <<>> THEN b
    ELSE LET lines == Split(b)
             last == lastContentLineIndex(lines, Len(lines))
         IN  IF last > 0
             THEN LET kept == JoinLines(SubSeq(lines, 1, last))
                  IN  IF Len(kept) > 0 THEN kept \o <<LF>> ELSE kept
             ELSE <<>>

\* Lines a terminal buffer is made of: blank ones, output, prompts of each
\* pattern, and lines that only resemble a prompt.
LineSamples ==
    { <<>>,
      <<" ">>,
      <<"l", "s">>,
      <<"l", "s", CR>>,
      <<"l", "s", " ", "$">>,
      <<"a", "@", "b">>,
      <<ESC, "[", "m">>,
      <<"a", "@", "b", ":", "$">>,
      <<"a", "@", "b", ":", "~", "$", " ">>,
      <<"$", " ">>,
      <<"a", ":", " ", "/", "x", "#">>,
      <<ESC, "[", "1", ";", "2", "m", "l", "s">>,
      <<"l", ESC, "[", "?", "1", "h">> }

LineBreaks == {<<LF>>, <<CR, LF>>}

\* ls[1] br[1] ls[2] br[2] ... ls[n]
RECURSIVE JoinWith(_, _)
JoinWith(ls, br) ==
    IF Len(ls) = 1 THEN ls[1]
    ELSE ls[1] \o br[1] \o JoinWith(Tail(ls), Tail(br))

\* The serializations considered: up to MaxLines lines.
Buffers ==
    {<<>>} \cup
    UNION {{JoinWith(ls, br) : ls \in [1..n -> LineSamples],
                               br \in [1..(n - 1) -> LineBreaks]} : n \in 1..MaxLines}

\* saveSessionState serializes the tab and stores its trimmed content.
saveContent ==
    /\ content = NotSaved
    /\ content' = trimmedContent(buffer)
    /\ UNCHANGED <<buffer, configVars, gateVars, relayVars, clientVars, tabVars, storeVars>>

\* ------------------------------------------------------------ specifications
\* Everything but the transcript under serialization.
InitManager ==
    /\ PIN \in PinConfigs
    /\ DEMO_MODE \in BOOLEAN
    /\ now = 0
    /\ loginAttempts = <<>>
    /\ sessionAuth = [s \in Sessions |-> FALSE]
    /\ cookieJar = [s \in Sessions |-> Undefined]
    /\ pending = EmptyBag
    /\ resp = NoResp
    /\ crashed = "no"
    /\ links = <<>>
    /\ ptys = <<>>
    /\ clock = 0
    /\ socks = <<NewSocket>>
    /\ ws = 1
    /\ reconnectAttempts = 0
    /\ timers = EmptyBag
    /\ termLine = "none"
    /\ redirected = FALSE
    /\ userEvents = 0
    /\ terminals = <<NewTabRec(1)>>
    /\ activeTabId = 1
    /\ tabCounter = 1 + 1
    /\ renaming = NoTab
    /\ storage = NoState
    /\ orphans = EmptyBag
    /\ closedIds = {}
    /\ storeMode = "ok"
    /\ isAvailable = TRUE

Init ==
    /\ InitManager
    /\ buffer = <<>>
    /\ content = NotSaved

GateNext ==
    \/ \E c \in Clients, pin \in PinBodies : VerifyPinRequest(c.ip, c.sess, pin)
    \/ \E r \in BagToSet(pending) : VerifyPinTimer(r)
    \/ CleanupLockouts
    \/ Tick

\* The gate with an access code configured.
InitGate == Init /\ ~NoPinConfigured /\ ~DEMO_MODE

SpecGate == InitGate /\ [][GateNext]_vars

\* The link life cycle: every way a link opens and closes, the liveness
\* check, and one kind of traffic in each direction.
RelayNext ==
    \/ \E originOk \in BOOLEAN, h \in CookieHeaders, spawnOk \in BOOLEAN :
          Connect(originOk, h, spawnOk)
    \/ \E i \in DOMAIN links : Message(i, [type |-> "input", data |-> "a", size |-> <<0, 0>>])
    \/ \E p \in DOMAIN ptys : PtyData(p, "x")
    \/ \E p \in DOMAIN ptys : DemoPrompt(p)
    \/ \E p \in DOMAIN ptys : PtyExit(p)
    \/ \E i \in DOMAIN links : PeerClose(i)
    \/ \E i \in DOMAIN links : WsError(i)
    \/ \E i \in DOMAIN links : SocketClosed(i)
    \/ \E i \in DOMAIN links : Pong(i)
    \/ Heartbeat

InitRelay == Init /\ PIN \in {Undefined, <<"1", "2">>}

SpecRelay == InitRelay /\ [][RelayNext]_vars

\* The data plane: every client message and every output chunk, on links
\* opened with no cookie or with the PIN cookie.  The liveness check reads
\* and writes nothing of it but readyState, which it changes as WsError does.
DataNext ==
    \/ \E h \in {NoCookieHeader, << <<PinCookieName, <<"1", "2">>>> >>} : Connect(TRUE, h, TRUE)
    \/ \E i \in DOMAIN links, m \in Messages : Message(i, m)
    \/ \E p \in DOMAIN ptys, chunk \in Chunks : PtyData(p, chunk)
    \/ \E p \in DOMAIN ptys : DemoPrompt(p)
    \/ \E p \in DOMAIN ptys : PtyExit(p)
    \/ \E i \in DOMAIN links : PeerClose(i)
    \/ \E i \in DOMAIN links : WsError(i)
    \/ \E i \in DOMAIN links : SocketClosed(i)

InitData == Init /\ PIN = <<"1", "2">>

SpecData == InitData /\ [][DataNext]_vars

\* The server started with no access code: unset, empty or blank.  No
\* /verify-pin request reaches its setTimeout then.
NoPinNext ==
    \/ \E c \in Clients, pin \in PinBodies : VerifyPinRequest(c.ip, c.sess, pin)
    \/ \E originOk \in BOOLEAN, h \in CookieHeaders, spawnOk \in BOOLEAN :
          Connect(originOk, h, spawnOk)
    \/ \E i \in DOMAIN links : PeerClose(i)
    \/ \E i \in DOMAIN links : SocketClosed(i)

InitNoPin == Init /\ PIN \in {Undefined, <<>>, <<" ">>}

SpecNoPin == InitNoPin /\ [][NoPinNext]_vars

ClientNext ==
    \/ \E k \in DOMAIN socks : SockOpen(k)
    \/ \E k \in DOMAIN socks, event \in CloseEvents : SockEnds(k, event)
    \/ \E k \in DOMAIN socks : ConnTimeout(k)
    \/ \E t \in BagToSet(timers) : ReconnectTimer(t)
    \/ UserInput
    \/ PageVisible
    \/ ClockTick

\* The tab while the server cannot be reached: every attempt is refused at
\* once or hangs.
RetryNext ==
    \/ \E k \in DOMAIN socks : SockEnds(k, "abnormal")
    \/ \E k \in DOMAIN socks : ConnTimeout(k)
    \/ \E t \in BagToSet(timers) : ReconnectTimerUpTo(t, MaxRetrySocks)
    \/ ClockTickUpTo(MaxRetryClock)

\* One tab's link as the browser drives it.
InitClient == Init /\ PIN = Undefined /\ ~DEMO_MODE

SpecClient == InitClient /\ [][ClientNext]_vars

SpecRetry == InitClient /\ [][RetryNext]_vars

TabsNext ==
    \/ handleNewTab
    \/ \E id \in 1..MaxTabId : handleTabClose(id)
    \/ \E id \in 1..MaxTabId : handleTabClick(id)
    \/ cycleToNextTab
    \/ cycleToPreviousTab
    \/ \E n \in 1..MaxTabs : jumpToTab(n)
    \/ \E id \in 1..MaxTabId : handleTabRename(id)
    \/ \E value \in RenameInputs, key \in RenameKeys : finishRename(value, key)
    \/ \E id \in 1..MaxTabId, pos \in 1..MaxTabs : dragTab(id, pos)
    \/ \E i \in 1..MaxTabs : tabInput(i)
    \/ saveAfterOutput
    \/ Reload
    \/ \E i \in 1..MaxTabs : tabSocketOpens(i)
    \/ \E i \in 1..MaxTabs : tabSocketCloses(i)
    \/ \E from, to \in {"CONNECTING", "OPEN", "CLOSED"} : orphanSocket(from, to)

\* The tab manager of one page, over reloads.
InitTabs == Init /\ PIN = Undefined /\ ~DEMO_MODE

SpecTabs == InitTabs /\ [][TabsNext]_vars

\* Tabs are opened, chosen, renamed and dragged while their links come and go.
RenameNext ==
    \/ handleNewTab
    \/ \E id \in 1..MaxTabId : handleTabClick(id)
    \/ \E id \in 1..MaxTabId : handleTabRename(id)
    \/ \E value \in RenameInputs, key \in RenameKeys : finishRename(value, key)
    \/ \E id \in 1..MaxTabId, pos \in 1..MaxTabs : dragTab(id, pos)
    \/ \E i \in 1..MaxTabs : tabSocketOpens(i)
    \/ \E i \in 1..MaxTabs : tabSocketCloses(i)

SpecRename == InitTabs /\ [][RenameNext]_vars

\* Every path on which a client's value is compared with the access code:
\* one client guessing on /verify-pin, on /api/require-pin and at link open.
GuessNext ==
    \/ \E pin \in {<<"1", "2">>, <<"1">>} : VerifyPinRequest("ip1", "s1", pin)
    \/ \E r \in BagToSet(pending) : VerifyPinTimer(r)
    \/ Tick
    \/ \E guess \in {Undefined, <<"1", "2">>, <<"1">>} : RequirePin("ip1", guess)
    \/ \E h \in CookieHeaders : LinkOpen("ip1", h)

InitGuess == Init /\ PIN = <<"1", "2">> /\ ~DEMO_MODE

SpecGuess == InitGuess /\ [][GuessNext]_vars

TrimNext == saveContent

\* saveSessionState on one tab, for every serialization of its buffer.
InitTrim ==
    /\ InitManager /\ PIN = Undefined /\ ~DEMO_MODE
    /\ buffer \in Buffers
    /\ content = NotSaved

SpecTrim == InitTrim /\ [][TrimNext]_vars

StoreNext ==
    \/ handleNewTab
    \/ \E id \in 1..MaxTabId : handleTabClose(id)
    \/ \E id \in 1..MaxTabId : handleTabClick(id)
    \/ Reload
    \/ \E mode \in {"ok", "full", "disabled"} : storeModeChanges(mode)
    \/ storeCorrupted
    \/ \E st \in ForeignSnapshots : storeHoldsSnapshot(st)

\* The tab manager over a localStorage that can fail.
InitStore == Init /\ PIN = Undefined /\ ~DEMO_MODE

SpecStore == InitStore /\ [][StoreNext]_vars

\* ===================================================================== claims

\* The request's cookies carry the configured code under the PIN cookie's name.
HasValidCredential(h) ==
    /\ \E i \in 1..Len(h) :
          /\ Len(h[i]) >= 2
          /\ Trim(h[i][1]) = PinCookieName
          /\ Trim(h[i][2]) = PIN

\* C1: with an access code configured, a link has a PTY if and only if its
\* link-open request carried a valid credential (a spawn the OS refuses
\* aside), and a link opened without one is closed with status 1008 and has
\* no PTY.
C1_PtyIffValidCredential ==
    PIN = <<"1", "2">> =>
        \A i \in DOMAIN links :
            /\ links[i].term # NoTerm => HasValidCredential(links[i].cookie)
            /\ HasValidCredential(links[i].cookie) /\ crashed # "spawn" => links[i].term # NoTerm
            /\ ~HasValidCredential(links[i].cookie) =>
                  links[i].closeCode = POLICY_VIOLATION /\ links[i].term = NoTerm

\* The lockout record of ip is at the threshold and its window is running.
LockedState(ip) ==
    /\ ip \in DOMAIN loginAttempts
    /\ loginAttempts[ip].count >= 5
    /\ now - loginAttempts[ip].lastAttempt < LOCKOUT_TIME

\* C2: while an address has 5 or more recorded failures and the cooldown
\* window since the last one has not elapsed, no verification from it is
\* admitted to the comparison and every answer the route gives it is 429;
\* once the window has elapsed the route answers it 429 no more.
C2_LockedOutUntilWindowElapsed ==
    [][\A ip \in IPs :
         /\ LockedState(ip) =>
               /\ \A r \in BagToSet(pending') :
                     r.ip = ip => CopiesIn(r, pending') <= CopiesIn(r, pending)
               /\ (resp' # resp /\ resp'.stage = "entry" /\ resp'.ip = ip)
                     => resp'.status = 429
         /\ ~LockedState(ip) =>
               ~(resp' # resp /\ resp'.stage = "entry" /\ resp'.ip = ip /\ resp'.status = 429)
      ]_vars

C2_Witness ==
    \E ip \in IPs : LockedState(ip) /\ resp = Response("entry", ip, 429, 0)

C4_NoCodeNoGate ==
    PIN \in {Undefined, <<>>, <<" ">>} =>
        /\ \A i \in DOMAIN links :
              /\ links[i].term # NoTerm \/ (crashed = "spawn" /\ i = Len(links))
              /\ links[i].closeCode # POLICY_VIOLATION
        /\ loginAttempts = <<>>
        /\ pending = EmptyBag
        /\ resp = NoResp \/ resp.status = 200
        /\ \A c \in Clients : resp = Response("entry", c.ip, 200, 0) =>
              \E d \in Clients : sessionAuth[d.sess]

C4_Witness ==
    /\ PIN = <<" ">>
    /\ \E i \in DOMAIN links : links[i].cookie = NoCookieHeader /\ links[i].term # NoTerm
    /\ \E i \in DOMAIN links :
          links[i].cookie = << <<PinCookieName, <<"1">>>> >> /\ links[i].term # NoTerm
    /\ resp.status = 200

\* C5: a link that has closed has no running PTY: the close handler has
\* signalled it, or it had exited before.
C5_ClosedLinkPtyKilled ==
    \A i \in DOMAIN links :
        (links[i].readyState = "CLOSED" /\ links[i].term # NoTerm)
            => ptys[links[i].term].status # "running"

C5_Witness ==
    /\ crashed = "no"
    /\ \E i \in DOMAIN links :
          /\ links[i].readyState = "CLOSED"
          /\ links[i].term # NoTerm
          /\ ptys[links[i].term].status = "killed"
    /\ \E i \in DOMAIN links :
          /\ links[i].readyState = "CLOSED"
          /\ links[i].term # NoTerm
          /\ ptys[links[i].term].status = "exited"
          /\ ptys[links[i].term].exits = 1

\* C6: no link is open while its PTY has exited.
C6_ExitedPtyLinkNotOpen ==
    \A i \in DOMAIN links :
        (links[i].term # NoTerm /\ ptys[links[i].term].status = "exited")
            => links[i].readyState # "OPEN"

C6_Witness ==
    /\ crashed = "no"
    /\ \E i \in DOMAIN links :
          /\ links[i].term # NoTerm
          /\ ~ptys[links[i].term].demo
          /\ ptys[links[i].term].status = "exited"
          /\ links[i].readyState = "CLOSING"
          /\ links[i].isAlive

\* The links bound to terminal p.
Owners(p) == {i \in DOMAIN links : links[i].term = p}

Geometry(t) == <<t.cols, t.rows>>

\* C7: every open link has a PTY of its own, every PTY belongs to exactly one
\* link, and in every step a PTY's input and geometry change only together
\* with a message received on its own link, and a link is sent output only
\* together with output produced by its own PTY.
C7_OnePtyPerLinkNoCrossTalk ==
    /\ [](/\ \A i \in DOMAIN links :
               links[i].readyState = "OPEN" => links[i].term \in DOMAIN ptys
          /\ \A p \in DOMAIN ptys : Cardinality(Owners(p)) = 1)
    /\ [][/\ \A p \in DOMAIN ptys :
               (ptys'[p].written # ptys[p].written \/ Geometry(ptys'[p]) # Geometry(ptys[p]))
                  => \A i \in DOMAIN links :
                        (links'[i].recv # links[i].recv
                            \/ links'[i].lastResize # links[i].lastResize)
                            <=> links[i].term = p
          /\ \A i \in DOMAIN links :
               links'[i].sent # links[i].sent
                  => /\ links[i].term # NoTerm
                     /\ \A p \in DOMAIN ptys :
                           ptys'[p].produced # ptys[p].produced <=> links[i].term = p
         ]_vars

C7_Witness ==
    \E i, j \in DOMAIN links :
        /\ i # j
        /\ links[i].readyState = "OPEN" /\ links[j].readyState = "OPEN"
        /\ links[i].term # links[j].term
        /\ ptys[links[i].term].written # <<>>
        /\ ptys[links[j].term].written = <<>>
        /\ links[j].sent # <<>>
        /\ links[i].sent = <<>>

IsPrefix(a, b) == Len(a) <= Len(b) /\ a = SubSeq(b, 1, Len(a))

\* C8: for every link with a PTY, the data written to the PTY is the data of
\* the input messages received on the link, in order, and the output sent on
\* the link is the PTY's output in the order produced: all of it while the
\* link is open, a prefix of it afterwards.
C8_OrderAndContentPreserved ==
    \A i \in DOMAIN links :
        links[i].term # NoTerm =>
            /\ ptys[links[i].term].written = links[i].recv
            /\ IsPrefix(links[i].sent, ptys[links[i].term].produced)
            /\ links[i].readyState = "OPEN" => links[i].sent = ptys[links[i].term].produced

C8_Witness ==
    \E i \in DOMAIN links :
        /\ links[i].term # NoTerm
        /\ ptys[links[i].term].written = <<"a", "\r">>
        /\ links[i].sent = <<"y", "x">>

RefreshLine == "Connection lost. Please refresh the page to reconnect."

\* Some link of the tab was open and has closed.
LinkLost == \E k \in DOMAIN socks : socks[k].opened /\ socks[k].readyState = "CLOSED"

\* The delays of the reconnect timers a step consumes.
FiredDelays ==
    {t.delay : t \in {u \in BagToSet(timers) : CopiesIn(u, timers') < CopiesIn(u, timers)}}

\* C10: once a link has been lost, reconnection attempt n is made by a timer
\* of delay base * 2^(n-1) and n never exceeds 5; once the manual-reload line is
\* written, the tab on its own opens no further socket and keeps that line.
C10_BackoffThenGiveUp ==
    [][ /\ (LinkLost /\ reconnectAttempts' = reconnectAttempts + 1)
            => /\ FiredDelays = {baseReconnectDelay * Pow2(reconnectAttempts)}
               /\ reconnectAttempts' <= maxReconnectAttempts
        /\ (termLine = RefreshLine /\ userEvents' = userEvents)
            => /\ Len(socks') = Len(socks)
               /\ termLine' = termLine ]_vars


\* ---------------------------------------------------------------------- C11
\* The sockets whose close event a step delivers as e.
ClosesAs(e) ==
    {k \in DOMAIN socks : socks[k].closeEvent = "none" /\ socks'[k].closeEvent = e}

\* C11: the step in which a link closes with status 1008 schedules no
\* reconnection timer, opens no socket and sets the page's location to the
\* login flow; from then on the page opens no socket.
C11_PolicyCloseRedirects ==
    [][ /\ ClosesAs("policy") # {}
            => /\ redirected'
               /\ timers' = timers
               /\ Len(socks') = Len(socks)
               /\ termLine' = "Authentication required. Redirecting to login..."
        /\ redirected => Len(socks') = Len(socks) ]_vars

C11_Witness ==
    /\ redirected
    /\ \E k \in DOMAIN socks : socks[k].closeEvent = "policy" /\ socks[k].opened
    /\ reconnectAttempts = 0

\* ---------------------------------------------------------------------- C12
\* The link the tab holds was closed cleanly.
CleanlyClosed == socks[ws].readyState = "CLOSED" /\ socks[ws].closeEvent = "clean"

\* C12: while the tab's link is one that was closed cleanly, the tab, left to
\* itself (no keystroke, no page activation), opens no socket and schedules
\* no reconnection timer.
C12_CleanCloseNoReconnect ==
    [][ (CleanlyClosed /\ userEvents' = userEvents)
            => /\ Len(socks') = Len(socks)
               /\ timers' = timers ]_vars


\* ---------------------------------------------------------------------- C18
\* A step in which a link passed the gate and its spawn failed: the link is
\* there, with no terminal.
SpawnFailedStep ==
    /\ Len(links') = Len(links) + 1
    /\ Authorized(links'[Len(links')].cookie)
    /\ links'[Len(links')].term = NoTerm

\* C18: when the spawn fails at link open, the new link is closed at once, no
\* terminal is added, and every other link and every terminal is left as it
\* was.
C18_SpawnFailureClosesOnlyThatLink ==
    [][ SpawnFailedStep
            => /\ links'[Len(links')].readyState # "OPEN"
               /\ \A i \in DOMAIN links : links'[i] = links[i]
               /\ ptys' = ptys ]_vars


\* ---------------------------------------------------------------------- C20
\* The open links a step's liveness tick visits.
Ticked == {i \in DOMAIN links : links[i].readyState = "OPEN"
                                /\ links'[i].missed = links[i].missed + 1}

\* C20: a tick pings every open link that answered the previous ping (it stays
\* open, awaiting the pong) and terminates every open link that did not; the
\* liveness check terminates no link that answered; and no open link has met
\* two ticks since its last pong.
C20_LivenessTick ==
    /\ [](\A i \in DOMAIN links : links[i].readyState = "OPEN"
            => /\ links[i].missed <= 1
               /\ links[i].isAlive <=> links[i].missed = 0)
    /\ [][ \A i \in Ticked :
             IF links[i].isAlive
             THEN links'[i].readyState = "OPEN" /\ ~links'[i].isAlive
             ELSE links'[i].readyState # "OPEN" ]_vars

\* A link answered one ping, then stopped answering and was terminated at the
\* second tick after its pong.
C20_Witness ==
    \E i \in DOMAIN links :
        /\ links[i].missed = 2
        /\ links[i].readyState = "CLOSING"
        /\ links[i].term # NoTerm
        /\ \E j \in DOMAIN links : j # i /\ links[j].readyState = "OPEN" /\ links[j].missed = 1


\* ---------------------------------------------------------------------- C19
\* The links with a terminal on which a step delivers a message.
Delivered == {i \in DOMAIN links : links[i].term # NoTerm
                                   /\ links'[i].frames = links[i].frames + 1}

\* The message is one the handler drops: not JSON, of a type other than
\* input and resize, or a resize the terminal throws on.
Dropped(m, t) ==
    \/ m.type \notin {"input", "resize"}
    \/ m.type = "resize" /\ ResizeThrows(t, m.size)

\* C19: a dropped message changes nothing of its link but the count of
\* messages, nothing of any terminal and nothing of the process; an input
\* message, whatever was dropped before it, is written to the terminal.
C19_MalformedMessageDropped ==
    [][ \A i \in Delivered :
          LET m == links'[i].lastFrame
              t == ptys[links[i].term]
          IN  /\ Dropped(m, t)
                  => /\ links'[i] = [links[i] EXCEPT !.frames = @ + 1, !.lastFrame = m]
                     /\ ptys' = ptys
                     /\ crashed' = crashed
              /\ m.type = "input"
                  => ptys'[links[i].term].written = Append(t.written, m.data) ]_vars

\* A link took a message the handler dropped, stayed open with its terminal
\* untouched, and then had an input written to its terminal.
C19_Witness ==
    \E i \in DOMAIN links :
        /\ links[i].readyState = "OPEN"
        /\ links[i].frames = 2
        /\ links[i].lastFrame.type = "input"
        /\ links[i].recv = <<"a">>
        /\ links[i].lastResize = <<>>
        /\ ptys[links[i].term].written = <<"a">>
        /\ Geometry(ptys[links[i].term]) = <<80, 24>>

\* C13: once closeTab(id) has run, the closed tab's WebSocket is closed: no
\* socket whose tab was closed is still connecting or open.
C13_ClosedTabLinkTornDown ==
    \A state \in {"CONNECTING", "OPEN"} : ~BagIn(state, orphans)

\* C14: the manager always holds at least one tab and its active tab is one of
\* them; closing the only tab leaves exactly one tab, the fresh tab 1, active.
C14_NeverTabless ==
    /\ [](Len(terminals) >= 1 /\ activeTabId \in Ids(terminals))
    /\ [][\A id \in 1..MaxTabId :
            (Len(terminals) = 1 /\ handleTabClose(id)) =>
                /\ terminals' = <<NewTabRec(1)>>
                /\ activeTabId' = 1
                /\ tabCounter' = 1 + 1]_vars

\* The only tab, its socket open, was closed: tab 1 is fresh again while the
\* socket of its predecessor is still around.
C14_Witness ==
    /\ terminals = <<NewTabRec(1)>>
    /\ closedIds = {}
    /\ BagIn("OPEN", orphans)

TabList(ts) == [i \in DOMAIN ts |-> [id |-> ts[i].id, name |-> ts[i].name]]

\* C16: in every reachable state, saveSessionState() followed by
\* loadSessionState() in a fresh manager gives the same number of tabs with the
\* same identifiers and names in the same order, and the same active tab.
C16_SaveLoadRoundTrip ==
    LET m == Loaded(Saved(activeTabId, tabCounter, terminals))
    IN  /\ TabList(m.terminals) = TabList(terminals)
        /\ m.activeTabId = activeTabId

\* A line that is not blank and matches no prompt pattern.
ContentLine(l) == ~AllIn(l, 1, Len(l), WhiteSpace) /\ ~isPrompt(l)

\* C17: the stored content is the buffer's lines up to and including the last
\* line that is not blank and matches no prompt pattern, each followed by a
\* newline; it is empty when the buffer has no such line.
C17_TrimmedTranscript ==
    content # NotSaved =>
        LET lines == Split(buffer)
            kept == {i \in DOMAIN lines : ContentLine(lines[i])}
        IN  IF kept = {} THEN content = <<>>
            ELSE content = JoinLines(SubSeq(lines, 1, MaxOf(kept))) \o <<LF>>

\* An output line followed by a prompt line was saved as the output line and
\* a newline.
C17_Witness ==
    /\ buffer = <<"l", "s", CR, LF, "a", "@", "b", ":", "~", "$", " ">>
    /\ content = <<"l", "s", LF>>

\* C21: set and get never raise; with the store unavailable, full or switched
\* off set returns false and leaves the item alone; with the store unavailable,
\* switched off or holding text that is not JSON get returns the default; and a
\* manager constructed then starts with the single default tab 1.
C21_StoreFailsSoft ==
    /\ [](LET set == StoreSet(SessionStateOf(activeTabId, tabCounter, terminals))
              get == StoreGet(isAvailable, storeMode, storage)
          IN  /\ ~set.raised /\ ~get.raised
              /\ (~isAvailable \/ storeMode # "ok") =>
                     (~set.returned /\ set.item = storage)
              /\ (~isAvailable \/ storeMode = "disabled" \/ storage \in {NoState, Unparseable}) =>
                     get.returned = NoState)
    /\ [][(Reload /\ (storeMode # "ok" \/ storage \in {NoState, Unparseable})) =>
            /\ terminals' = <<NewTabRec(1)>>
            /\ activeTabId' = 1
            /\ tabCounter' = 1 + 1]_vars

\* The store filled up after the second tab was opened; the click on tab 1
\* then saved nothing and the manager went on.
C21_Witness ==
    /\ Len(terminals) = 1 + 1
    /\ activeTabId = 1
    /\ storeMode = "full"
    /\ isAvailable
    /\ storage = NoState

\* C22: for every terminal, simulated or not, kill is idempotent and the exit
\* listener runs at most once: a second kill changes nothing after the first,
\* and no terminal has had its exit listener run twice.
C22_KillIdempotentExitOnce ==
    \A p \in DOMAIN ptys :
        LET once == TermKill(ptys[p])
        IN  /\ TermKill(once) = once
            /\ once.exits <= 1

\* The window of the record of ip has elapsed at time t.
WindowElapsed(ip, t) == t - loginAttempts[ip].lastAttempt >= LOCKOUT_TIME

C24_CountRestartsAfterWindow ==
    [][\A r \in BagToSet(pending) :
            (/\ pending' = pending (-) SetToBag({r})
             /\ ~verifyPin(PIN, r.pin)
             /\ r.late
             /\ AfterWindow(r.ip)) =>
                loginAttempts'[r.ip].count = 1]_vars

\* C25 (as stated): the attempt counter is zero after every successful open
\* and after every return of the page to the foreground, whatever the state
\* of the tab's socket.
C25_CounterResetOnOpenAndVisible ==
    [][((\E k \in DOMAIN socks : SockOpen(k)) \/ PageVisible) =>
            reconnectAttempts' = 0]_vars

\* C25 (as the code has it): the counter is zero after every successful open;
\* a return to the foreground resets it, and connects anew, when the tab's
\* socket is closed, and changes nothing when it is connecting, open or closing.
C25_CounterResetOnOpenAndVisibleClosed ==
    /\ [][(\E k \in DOMAIN socks : SockOpen(k)) => reconnectAttempts' = 0]_vars
    /\ [][PageVisible =>
            IF socks[ws].readyState = "CLOSED"
            THEN reconnectAttempts' = 0 /\ ws' = Len(socks) + 1
            ELSE UNCHANGED <<reconnectAttempts, socks, ws, timers>>]_vars

\* No socket has ever opened, a reconnect timer has made the second one, and
\* the counter is zero again on a third: the page came back to the foreground
\* with the second socket closed.
C25_Witness ==
    /\ reconnectAttempts = 0
    /\ Len(socks) >= 3
    /\ \A k \in DOMAIN socks : ~socks[k].opened

\* C26 (as stated): closing the active tab while others remain activates the
\* most recently added of them, the one with the highest identifier
\* (identifiers grow with creation); closing another tab leaves the active
\* tab as it is.
C26_CloseActivatesNewest ==
    [][\A id \in 1..MaxTabId :
            (handleTabClose(id) /\ Len(terminals) > 1) =>
                activeTabId' = IF activeTabId = id
                               THEN MaxOf(Ids(terminals) \ {id})
                               ELSE activeTabId]_vars

\* C26 (as the code has it): closing the active tab while others remain
\* activates the last of them in display order, which a drag or a restore can
\* make another tab than the newest; closing another tab leaves the active
\* tab as it is.
C26_CloseActivatesLastInOrder ==
    [][\A id \in 1..MaxTabId :
            (handleTabClose(id) /\ Len(terminals) > 1) =>
                /\ Ids(terminals') = Ids(terminals) \ {id}
                /\ activeTabId' = IF activeTabId = id
                                  THEN terminals'[Len(terminals')].id
                                  ELSE activeTabId]_vars

\* After a reorder and a close, the active tab is the last in order and not
\* the newest.
C26_Witness ==
    /\ closedIds # {}
    /\ Len(terminals) > 1
    /\ activeTabId = terminals[Len(terminals)].id
    /\ activeTabId # MaxOf(Ids(terminals))
    /\ storage = SessionStateOf(activeTabId, tabCounter, terminals)

\* The stored snapshot lists the open tabs with their names, in order, and the
\* active tab.
SnapshotCurrent ==
    /\ storage.terminals = SessionStateOf(activeTabId, tabCounter, terminals).terminals
    /\ storage.activeTabId = activeTabId

\* C27: right after each new tab, close, rename, reorder and keystroke the
\* stored snapshot lists exactly the open tabs with their names and order and
\* the active tab.
C27_SnapshotAfterEveryAction ==
    [][(\/ handleNewTab
        \/ \E id \in 1..MaxTabId : handleTabClose(id)
        \/ \E value \in RenameInputs, key \in RenameKeys : finishRename(value, key)
        \/ \E id \in 1..MaxTabId, pos \in 1..MaxTabs : dragTab(id, pos)
        \/ \E i \in 1..MaxTabs : tabInput(i)) => SnapshotCurrent']_vars

\* C28: a manager constructed over a stored state with at least one tab has
\* exactly the stored tabs, by ascending saved order, with the stored names,
\* and the stored active tab, or the first tab when that identifier is not
\* among them; constructed over no stored state, or one without tabs, it has
\* the single default tab 1, active.
C28_LoadRestoresOrDefaults ==
    [][Reload =>
        LET st == StoreGet(checkAvailability(storeMode), storeMode, storage).returned
            saved == st.terminals
            entry(id) == saved[CHOOSE k \in DOMAIN saved : saved[k].id = id]
        IN  IF st # NoState /\ Len(saved) > 0
            THEN /\ Len(terminals') = Len(saved)
                 /\ Ids(terminals') = {saved[k].id : k \in DOMAIN saved}
                 /\ \A i \in DOMAIN terminals' :
                        terminals'[i].name = entry(terminals'[i].id).name
                 /\ \A i, j \in DOMAIN terminals' :
                        i < j => entry(terminals'[i].id).order <= entry(terminals'[j].id).order
                 /\ activeTabId' = IF st.activeTabId \in Ids(terminals')
                                   THEN st.activeTabId ELSE terminals'[1].id
            ELSE /\ terminals' = <<NewTabRec(1)>>
                 /\ activeTabId' = 1]_vars

\* Loaded from the snapshot whose active identifier 3 is not among its tabs:
\* tab 2 (saved order 0) stands before tab 1 and is active.
C28_Witness ==
    /\ TabList(terminals) = << [id |-> 2, name |-> <<"x">>],
                               [id |-> 1, name |-> DefaultName(1)] >>
    /\ activeTabId = 2
    /\ storage.activeTabId = 3

\* C29: a drag leaves the set of open tab identifiers, every tab's name and
\* link and the next-identifier counter as they were; the new order is a
\* permutation of the old one.
C29_DragOnlyReorders ==
    [][(\E id \in 1..MaxTabId, pos \in 1..MaxTabs : dragTab(id, pos)) =>
        /\ Ids(terminals') = Ids(terminals)
        /\ Len(terminals') = Len(terminals)
        /\ \A i \in DOMAIN terminals : \E j \in DOMAIN terminals' : terminals'[j] = terminals[i]
        /\ tabCounter' = tabCounter]_vars

\* Tab 2, renamed, was dragged in front of tab 1; the stored order follows.
C29_Witness ==
    /\ TabList(terminals) = << [id |-> 2, name |-> <<"x">>],
                               [id |-> 1, name |-> DefaultName(1)] >>
    /\ activeTabId = 2
    /\ tabCounter = 3
    /\ storage # NoState
    /\ Len(storage.terminals) = 2
    /\ storage.terminals[1].id = 2

MalformedCookieStep ==
    /\ ~NoPinConfigured
    /\ Len(links') = Len(links) + 1
    /\ CookieThrows(links'[Len(links')].cookie)

\* C31: a link-open with a malformed Cookie header closes that link with
\* status 1008 and spawns nothing, and every other link, every terminal and
\* the server process are left as they were.
C31_MalformedCookieLocalToLink ==
    [][ MalformedCookieStep
            => /\ links'[Len(links')].closeCode = POLICY_VIOLATION
               /\ links'[Len(links')].term = NoTerm
               /\ \A i \in DOMAIN links : links'[i] = links[i]
               /\ ptys' = ptys
               /\ crashed' = "no" ]_vars

\* C32: when the 5-second timeout of a connection attempt fires and the attempt
\* has not opened, the attempt is closed and a reconnection is started (or
\* given up after the last attempt); the timeout closes no socket that is open.
C32_TimeoutAbandonsUnopenedOnly ==
    [][\A k \in 1..MaxSocks :
        ConnTimeout(k) =>
            /\ socks[k].readyState = "CONNECTING" =>
                  /\ socks'[k].readyState # "CONNECTING"
                  /\ termLine' \in {"Connection lost. Attempting to reconnect...",
                                    "Connection lost. Please refresh the page to reconnect."}
            /\ \A j \in DOMAIN socks :
                  socks[j].readyState = "OPEN" => socks'[j].readyState = "OPEN"]_vars

\* C33: no two open tabs have the same identifier; the identifier handleNewTab
\* gives a new tab is that of no open tab; the tab that replaces the last tab
\* closed has identifier 1.
C33_OpenIdsUnique ==
    /\ [](\A i, j \in DOMAIN terminals : terminals[i].id = terminals[j].id => i = j)
    /\ [][handleNewTab =>
            /\ Len(terminals') = Len(terminals) + 1
            /\ terminals'[Len(terminals')].id \notin Ids(terminals)]_vars
    /\ [][\A id \in 1..MaxTabId :
            (handleTabClose(id) /\ Ids(terminals) = {id}) =>
                (Len(terminals') = 1 /\ terminals'[1].id = 1)]_vars

\* Three tabs are open, one of them opened after another was closed.
C33_Witness ==
    /\ Len(terminals) = MaxTabs
    /\ closedIds # {}
    /\ renaming = NoTab

\* C34: an address whose lockout is running gets no terminal at link open and
\* no answer from /api/require-pin that tells a right guess from a wrong one,
\* and every wrong guess compared on /api/require-pin is counted against the
\* address.
C34_LimitCoversEveryPath ==
    [][\A ip \in IPs :
        /\ \A guess \in PinBodies :
              RequirePin(ip, guess) =>
                  /\ LockedState(ip) => ~resp'.success
                  /\ (~Falsy(guess) /\ ~verifyPin(PIN, guess)) =>
                        /\ ip \in DOMAIN loginAttempts'
                        /\ loginAttempts'[ip] # (IF ip \in DOMAIN loginAttempts
                                                 THEN loginAttempts[ip] ELSE NoRecord)
        /\ \A h \in CookieHeaders :
              (LockedState(ip) /\ LinkOpen(ip, h)) => ptys' = ptys]_vars

\* C35: no address's failure count is ever above 5, and no verification of an
\* address is accepted while five failures of it stand within the window.
C35_CountCappedUnderOverlap ==
    /\ [](\A ip \in DOMAIN loginAttempts : loginAttempts[ip].count <= MAX_ATTEMPTS)
    /\ [][\A r \in BagToSet(pending) :
            (VerifyPinTimer(r) /\ LockedState(r.ip)) => ~resp'.success]_vars

\* C36: at no time does the tab have two sockets that are connecting or open.
C36_OneLiveSocketPerTab ==
    Cardinality({k \in DOMAIN socks : socks[k].readyState \in {"CONNECTING", "OPEN"}}) <= 1

\* C37: the reconnection attempt counter is never above the maximum of 5.
C37_AttemptsNeverAboveMax ==
    reconnectAttempts <= maxReconnectAttempts

\* C38: the active tab identifier is always that of an open tab.
C38_ActiveTabIsOpen ==
    activeTabId \in Ids(terminals)

\* A tab was closed while two others stayed open; the last of those is the
\* active tab, in the manager and in the stored snapshot.
C38_Witness ==
    /\ Len(terminals) = 2
    /\ closedIds # {}
    /\ activeTabId \notin closedIds
    /\ activeTabId = terminals[Len(terminals)].id
    /\ storage.activeTabId = activeTabId

\* C39: in no reachable state does a save that is due (the delayed save after
\* output on an open link) find a tab whose name element is missing, which
\* makes saveSessionState raise.
C39_SaveNeverRaises ==
    ~(SaveThrows /\ ENABLED saveAfterOutput)

\* C40: a link-open from an origin that fails validation adds no link and no
\* terminal and leaves every open link, every terminal and the server process
\* as they were.
C40_BadOriginRejectedOnly ==
    [][\A h \in CookieHeaders, spawnOk \in BOOLEAN :
        Connect(FALSE, h, spawnOk) =>
            /\ crashed' = "no"
            /\ links' = links
            /\ ptys' = ptys]_vars

============================================================================
